---- MODULE Spec2Model ----
(***************************************************************************)
(* Model of the PDF extraction service: the text normalizer (cleanText),   *)
(* the content fetcher (downloadFile, detectMimeType) and the extraction   *)
(* strategies (extractTextFromPDF, extractTextWithOCR, extractTextFromDOCX,*)
(* extractTextFromTXT).                                                    *)
(*                                                                         *)
(* Texts are sequences of one-character strings.  Two characters outside   *)
(* ASCII are written by name: "NBSP" is U+00A0 and "ELL" is U+2026.        *)
(***************************************************************************)
EXTENDS Integers, Sequences, FiniteSets, TLC

VARIABLES
    \* ---- text normalizer: two successive applications of cleanText
    cpc,        \* "start" | "once" | "twice"
    input,      \* the raw text
    pass1,      \* cleanText(input)
    pass2,      \* cleanText(pass1)
    again,      \* <<>> or <<the result of another call cleanText(input)>>
    \* ---- MIME type resolution: one call of detectMimeType
    mpc,        \* "start" | "done"
    mbuffer,    \* the downloaded bytes
    mfilename,  \* the file name taken from the URL
    mheader,    \* the transport's content-type header
    mresult,    \* what detectMimeType returned
    \* ---- content fetcher: one call of downloadFile
    dpc,        \* "m1" | "m2" | "m3" | "m4" | "exhausted" | "returned" | "thrown"
    durl,       \* the URL downloadFile was called with, split at '/'
    denv,       \* process.env: the Cloudinary cloud name, API key and API secret
    requests,   \* the GET requests issued so far, in order
    outcomes,   \* how each strategy tried so far ended, in order
    returned,   \* <<>> or <<the object downloadFile returned>>; its buffer is
                \* written as the leading bytes `buffer` and `zeros` zero bytes after them
    thrown,     \* <<>> or <<the object downloadFile threw>>
    \* ---- extraction strategies: one call of a strategy on a buffer
    epc,        \* "start" | "pdf_parsed" | "pdf_catch" | "ocr" | "done" | "failed"
    strategy,   \* "pdf" | "docx" | "txt" | "ocr": the strategy called
    ebuffer,    \* the bytes to extract from
    eoptions,   \* the options of the call
    tesseract,  \* whether require('tesseract.js') and require('sharp') succeeded
    tesseractWorker, \* the shared worker: "null" | "created" | "ready"
    parsed,     \* <<>> or <<what pdfParse gave (or the mock result)>>
    caught,     \* <<>> or <<the error in extractTextFromPDF's catch block>>
    readerError, \* <<>> or <<the error pdfParse rejected with>>
    cleanedTexts, \* the texts cleanText has returned in this call, in order
    ocrCaller,  \* who awaits extractTextWithOCR: "none" | "sparse" | "fallback" | "direct"
    ocrCalls,   \* how often extractTextWithOCR was called
    eresult,    \* <<>> or <<the {text, metadata} returned>>
    ethrown,    \* <<>> or <<the error thrown to the caller>>
    \* ---- orchestration: one call of processDocument
    ppc,        \* "start" | "fetched" | "extracting" | "returned" | "thrown"
    fileUrl,    \* the URL processDocument was called with, split at '/'
    poptions,   \* the options processDocument was called with
    fileData,   \* <<>> or <<what downloadFile returned>>
    presult,    \* <<>> or <<the {text, metadata} processDocument returned>>
    pthrown,    \* <<>> or <<the error processDocument threw>>
    \* ---- concurrent calls of extractTextWithOCR on the shared worker
    opc,        \* call -> "start" | "creating" | "loading" | "initializing" |
                \*         "preprocessing" | "recognizing" | "returned" | "thrown"
    omode,      \* call -> whether options.isPngAsPdf || options.directImageOcr
    tempDir,    \* call -> <<>> (null) or <<the directory mkdtempSync gave the call>>
    tmpdirs,    \* the pdf-ocr-* directories that exist, each with the call that made it
    engines,    \* how many Tesseract workers have been created
    recognizedOn, \* call -> <<>> or <<the state of the handle the call passed to recognize>>
    \* ---- the extract request handler: one request
    hpc,        \* "start" | "first" | "retry" | "done"
    hrequest,   \* the request: method, authorization header, body
    hcalls,     \* the processDocument calls made so far, in order: the options of each
                \* and, once it has thrown, its error
    hresponses, \* the responses sent so far, in order
    \* ---- the earlier pdfProcessor: processDocument calls in one process
    wpc,        \* per call: "start" | "ocr" | "creating" | "recognizing" | "finally" |
                \* "terminating" | "done"
    woptions,   \* per call: the options it was called with
    wlocal,     \* per call: what the call has seen and done so far
    workerHandle, \* the module's tesseractWorker: 0 is null, else the worker's number
    workers     \* the workers created so far: "running" or "terminated"

cleanVars == <<cpc, input, pass1, pass2, again>>
mimeVars == <<mpc, mbuffer, mfilename, mheader, mresult>>
dlVars == <<dpc, durl, denv, requests, outcomes, returned, thrown>>
exVars == <<epc, strategy, ebuffer, eoptions, tesseract, tesseractWorker, parsed, caught,
            readerError, cleanedTexts, ocrCaller, ocrCalls, eresult, ethrown>>
procVars == <<ppc, fileUrl, poptions, fileData, presult, pthrown>>
ocrVars == <<opc, omode, tempDir, tmpdirs, engines, recognizedOn>>
handlerVars == <<hpc, hrequest, hcalls, hresponses>>
workerVars == <<wpc, woptions, wlocal, workerHandle, workers>>
vars == <<cleanVars, mimeVars, dlVars, exVars, procVars, ocrVars, handlerVars, workerVars>>

\* what each specification leaves alone
notClean == <<mimeVars, dlVars, exVars, procVars, ocrVars, handlerVars, workerVars>>
notMime == <<cleanVars, dlVars, exVars, procVars, ocrVars, handlerVars, workerVars>>
notDl == <<cleanVars, mimeVars, exVars, procVars, ocrVars, handlerVars, workerVars>>
notEx == <<cleanVars, mimeVars, dlVars, procVars, ocrVars, handlerVars, workerVars>>
notProc == <<cleanVars, mimeVars, dlVars, ocrVars, handlerVars, workerVars>>
\* the handler calls processDocument, which calls the strategies
notHandler == <<cleanVars, mimeVars, dlVars, ocrVars, workerVars>>
notWorker == <<cleanVars, mimeVars, dlVars, exVars, procVars, ocrVars, handlerVars>>
\* the concurrent calls share tesseract and tesseractWorker with the strategies
notOcr == <<cleanVars, mimeVars, dlVars, procVars, handlerVars, workerVars, epc, strategy, ebuffer,
            eoptions, parsed, caught, readerError, cleanedTexts, ocrCaller, ocrCalls, eresult,
            ethrown>>

\* ------------------------------------------------------------------------
\* Bounds of the model
\* ------------------------------------------------------------------------
MaxLen == 3        \* longest raw text over the full alphabet
MaxWsLen == 5      \* longest raw text over the whitespace alphabet
MaxBufLen == 4     \* longest buffer enumerated byte by byte

\* ------------------------------------------------------------------------
\* Characters
\* ------------------------------------------------------------------------
Lower == {"a", "b", "l", "m", "n", "r"}                  \* [a-z]
Upper == {"A", "L", "M", "N", "O", "R", "B"}             \* [A-Z]
Digit == {"0", "1", "2", "3", "4", "5", "6", "7", "8", "9"}  \* [0-9]
\* JavaScript \s, which is also what String.prototype.trim strips
Whitespace == {" ", "\n", "\t", "\r", "NBSP"}

IsWs(c) == c \in Whitespace

\* all sequences over S of length 0..n
RECURSIVE SeqsUpTo(_, _)
SeqsUpTo(S, n) ==
    IF n = 0 THEN {<<>>}
    ELSE LET shorter == SeqsUpTo(S, n - 1)
         IN  shorter \cup {Append(s, c) : s \in {t \in shorter : Len(t) = n - 1}, c \in S}

\* length of the longest prefix of s whose characters are all in S
RECURSIVE RunLen(_, _)
RunLen(s, S) ==
    IF s = <<>> \/ s[1] \notin S THEN 0 ELSE 1 + RunLen(Tail(s), S)

Drop(s, n) == SubSeq(s, n + 1, Len(s))

\* ------------------------------------------------------------------------
\* cleanText, step by step
\* ------------------------------------------------------------------------

\* faulty variant: only runs of three or more are collapsed (/\s{3,}/g)
RECURSIVE CollapseSpacesFrom3(_)
CollapseSpacesFrom3(s) ==
    IF s = <<>> THEN <<>>
    ELSE LET n == RunLen(s, Whitespace)
         IN  IF n >= 3 THEN <<" ">> \o CollapseSpacesFrom3(Drop(s, n))
             ELSE <<s[1]>> \o CollapseSpacesFrom3(Tail(s))

\* text.replace(/\s{2,}/g, ' ')
RECURSIVE CollapseSpaces(_)
CollapseSpaces(s) ==
    IF s = <<>> THEN <<>>
    ELSE LET n == RunLen(s, Whitespace)
         IN  IF n >= 2 THEN <<" ">> \o CollapseSpaces(Drop(s, n))
             ELSE <<s[1]>> \o CollapseSpaces(Tail(s))

\* cleaned.replace(/\n{3,}/g, '\n\n')
RECURSIVE CollapseNewlines(_)
CollapseNewlines(s) ==
    IF s = <<>> THEN <<>>
    ELSE LET n == RunLen(s, {"\n"})
         IN  IF n >= 3 THEN <<"\n", "\n">> \o CollapseNewlines(Drop(s, n))
             ELSE <<s[1]>> \o CollapseNewlines(Tail(s))

\* the positions /m(?=[a-z])/g matches
RnMatches(s) ==
    {i \in 1..Len(s) : s[i] = "m" /\ i < Len(s) /\ s[i + 1] \in Lower}

\* fixed.replace(/m(?=[a-z])/g, match => Math.random() > 0.5 ? 'rn' : match)
\* rnd is the set of matches for which Math.random() came out above 0.5
RECURSIVE FixRnFrom(_, _, _)
FixRnFrom(s, rnd, i) ==
    IF i > Len(s) THEN <<>>
    ELSE (IF i \in rnd THEN <<"r", "n">> ELSE <<s[i]>>) \o FixRnFrom(s, rnd, i + 1)

FixRn(s, rnd) == FixRnFrom(s, rnd \cap RnMatches(s), 1)

\* s.replace(/([L])mid([R])/g, '$1' + new + '$2'): matches do not overlap
RECURSIVE ReplaceBetween(_, _, _, _, _)
ReplaceBetween(s, L, mid, R, new) ==
    IF s = <<>> THEN <<>>
    ELSE IF Len(s) >= 3 /\ s[1] \in L /\ s[2] = mid /\ s[3] \in R
         THEN <<s[1], new, s[3]>> \o ReplaceBetween(Drop(s, 3), L, mid, R, new)
         ELSE <<s[1]>> \o ReplaceBetween(Tail(s), L, mid, R, new)

\* fixed.replace(/\.([A-Z])/g, '. $1')
RECURSIVE SpaceAfterPeriod(_)
SpaceAfterPeriod(s) ==
    IF s = <<>> THEN <<>>
    ELSE IF Len(s) >= 2 /\ s[1] = "." /\ s[2] \in Upper
         THEN <<".", " ", s[2]>> \o SpaceAfterPeriod(Drop(s, 2))
         ELSE <<s[1]>> \o SpaceAfterPeriod(Tail(s))

fixCommonOCRIssues(s, rnd) ==
    SpaceAfterPeriod(
        ReplaceBetween(
            ReplaceBetween(FixRn(s, rnd), Digit, "O", Digit, "0"),
            Lower, "1", Lower, "l"))

\* String.prototype.trim
RECURSIVE TrimRight(_)
TrimRight(s) ==
    IF s = <<>> \/ ~IsWs(s[Len(s)]) THEN s ELSE TrimRight(SubSeq(s, 1, Len(s) - 1))

Trim(s) == TrimRight(Drop(s, RunLen(s, Whitespace)))

\* text.split('\n')
RECURSIVE SplitLines(_)
SplitLines(s) ==
    LET breaks == {i \in 1..Len(s) : s[i] = "\n"}
    IN  IF breaks = {} THEN <<s>>
        ELSE LET n == CHOOSE i \in breaks : \A j \in breaks : i <= j
             IN  <<SubSeq(s, 1, n - 1)>> \o SplitLines(Drop(s, n))

ToUpperChar(c) ==
    CASE c = "a" -> "A" [] c = "b" -> "B" [] c = "l" -> "L"
      [] c = "m" -> "M" [] c = "n" -> "N" [] c = "r" -> "R"
      [] OTHER -> c

toUpperCase(s) == [i \in 1..Len(s) |-> ToUpperChar(s[i])]

HeadingMaxLen == 50

\* one iteration of the loop of preserveParagraphs: st = [paragraphs, currentParagraph]
ParagraphStep(st, rawLine) ==
    LET line == Trim(rawLine)
        cur == st.currentParagraph
        joined == cur \o (IF cur # <<>> THEN <<" ">> ELSE <<>>) \o line
    IN  IF line = <<>>
        THEN [paragraphs |-> IF cur # <<>> THEN Append(st.paragraphs, cur) ELSE st.paragraphs,
              currentParagraph |-> <<>>]
        ELSE IF toUpperCase(line) = line /\ Len(line) < HeadingMaxLen
        THEN [paragraphs |-> Append(IF cur # <<>> THEN Append(st.paragraphs, cur)
                                    ELSE st.paragraphs, line),
              currentParagraph |-> <<>>]
        ELSE IF line[Len(line)] \in {".", "!", "?"}
        THEN [paragraphs |-> Append(st.paragraphs, joined), currentParagraph |-> <<>>]
        ELSE [paragraphs |-> st.paragraphs, currentParagraph |-> joined]

RECURSIVE ParagraphLoop(_, _)
ParagraphLoop(st, lines) ==
    IF lines = <<>> THEN st ELSE ParagraphLoop(ParagraphStep(st, Head(lines)), Tail(lines))

\* paragraphs.join('\n\n')
RECURSIVE JoinParagraphs(_)
JoinParagraphs(ps) ==
    IF ps = <<>> THEN <<>>
    ELSE IF Len(ps) = 1 THEN ps[1]
    ELSE ps[1] \o <<"\n", "\n">> \o JoinParagraphs(Tail(ps))

preserveParagraphs(s) ==
    LET st == ParagraphLoop([paragraphs |-> <<>>, currentParagraph |-> <<>>], SplitLines(s))
    IN  JoinParagraphs(IF st.currentParagraph # <<>>
                       THEN Append(st.paragraphs, st.currentParagraph)
                       ELSE st.paragraphs)

RECURSIVE normalizeEncoding(_)
normalizeEncoding(s) ==
    IF s = <<>> THEN <<>>
    ELSE (CASE s[1] = "ELL" -> <<".", ".", ".">>
            [] s[1] = "NBSP" -> <<" ">>
            [] OTHER -> <<s[1]>>) \o normalizeEncoding(Tail(s))

cleanText(text, rnd) ==
    IF text = <<>> THEN <<>>
    ELSE Trim(normalizeEncoding(preserveParagraphs(
            fixCommonOCRIssues(CollapseNewlines(CollapseSpaces(text)), rnd))))

\* every text cleanText can return for a raw text, over the outcomes of
\* Math.random()
CleanTextOutcomes(text) ==
    {cleanText(text, rnd) : rnd \in SUBSET RnMatches(CollapseNewlines(CollapseSpaces(text)))}

\* ------------------------------------------------------------------------
\* MIME type detection.  Buffers are sequences of bytes 0..255 and file names
\* sequences of characters; a null buffer or file name is written <<>>, which
\* every test the code makes on them (!buffer, buffer.length === 0, !filename,
\* filename ? .. : ..) treats as it treats null.
\* ------------------------------------------------------------------------
Null == "null"
OctetStream == "application/octet-stream"
PdfMime == "application/pdf"
DocxMime == "application/vnd.openxmlformats-officedocument.wordprocessingml.document"
DocMime == "application/msword"
ZipMime == "application/zip"
TxtMime == "text/plain"

PdfSignature == <<37, 80, 68, 70>>                        \* '%PDF'
ZipSignature == <<80, 75, 3, 4>>                          \* 50 4B 03 04
DocSignature == <<208, 207, 17, 224, 161, 177, 26, 225>>  \* D0 CF 11 E0 A1 B1 1A E1
PngSignature == <<137, 80, 78, 71, 13, 10, 26, 10>>       \* 89 50 4E 47 0D 0A 1A 0A
JpegSignature == <<255, 216, 255>>                        \* FF D8 FF
Gif87a == <<71, 73, 70, 56, 55, 97>>                      \* 'GIF87a'
Gif89a == <<71, 73, 70, 56, 57, 97>>                      \* 'GIF89a'
WordMarkerHex == <<7, 7, 6, 15, 7, 2, 6, 4, 2, 15>>       \* '776f72642f', hex of 'word/'
WordMarker == <<119, 111, 114, 100, 47>>                  \* 'word/'

Min(a, b) == IF a < b THEN a ELSE b

\* buffer.slice(0, n)
Slice(buffer, n) == SubSeq(buffer, 1, Min(n, Len(buffer)))

\* buf.toString('ascii'): decoding unsets the highest bit of every byte
ToAscii(buffer) == [i \in 1..Len(buffer) |-> buffer[i] % 128]

\* buf.toString('hex', 0, n), as a sequence of hex digits 0..15
ToHex(buffer) ==
    [i \in 1..(2 * Len(buffer)) |->
        IF i % 2 = 1 THEN buffer[(i + 1) \div 2] \div 16 ELSE buffer[i \div 2] % 16]

\* String.prototype.includes
Includes(hay, needle) ==
    \E i \in 0..(Len(hay) - Len(needle)) : SubSeq(hay, i + 1, i + Len(needle)) = needle

HexScanLimit == 1000

\* faulty variant: the signature test of the earlier variant, buffer.length > 4
detectMimeTypeFromContentLongOnly(buffer) ==
    IF Len(buffer) = 0 THEN Null
    ELSE IF Len(buffer) > 4 /\ ToAscii(Slice(buffer, 4)) = PdfSignature THEN PdfMime
    ELSE IF Len(buffer) > 4 /\ Slice(buffer, 4) = ZipSignature THEN DocxMime
    ELSE Null

detectMimeTypeFromContent(buffer) ==
    IF Len(buffer) = 0 THEN Null
    ELSE IF Len(buffer) >= 4 /\ ToAscii(Slice(buffer, 4)) = PdfSignature THEN PdfMime
    ELSE IF Len(buffer) >= 4 /\ Slice(buffer, 4) = ZipSignature
         THEN \* the hex dump can hold neither '_rels' nor 'docProps'
              IF Includes(ToHex(Slice(buffer, HexScanLimit)), WordMarkerHex)
              THEN DocxMime ELSE ZipMime
    ELSE IF Len(buffer) >= 8 /\ Slice(buffer, 8) = DocSignature THEN DocMime
    ELSE IF Len(buffer) >= 8 /\ Slice(buffer, 8) = PngSignature THEN "image/png"
    ELSE IF Len(buffer) >= 3 /\ Slice(buffer, 3) = JpegSignature THEN "image/jpeg"
    ELSE IF Len(buffer) >= 6 /\ ToAscii(Slice(buffer, 6)) \in {Gif87a, Gif89a} THEN "image/gif"
    ELSE Null

\* filename.toLowerCase(), over the letters file names are written with here
ToLowerChar(c) ==
    CASE c = "P" -> "p" [] c = "D" -> "d" [] c = "F" -> "f" [] OTHER -> c

toLowerCase(s) == [i \in 1..Len(s) |-> ToLowerChar(s[i])]

\* s.split('.').pop()
RECURSIVE LastDotPart(_)
LastDotPart(s) ==
    IF s = <<>> \/ s[Len(s)] = "." THEN <<>>
    ELSE Append(LastDotPart(SubSeq(s, 1, Len(s) - 1)), s[Len(s)])

\* the mimeTypes table of detectMimeTypeFromExtension
ExtensionTable ==
    { <<<<"p", "d", "f">>, PdfMime>>,
      <<<<"d", "o", "c", "x">>, DocxMime>>,
      <<<<"d", "o", "c">>, DocMime>>,
      <<<<"t", "x", "t">>, TxtMime>>,
      <<<<"p", "n", "g">>, "image/png">>,
      <<<<"j", "p", "g">>, "image/jpeg">>,
      <<<<"j", "p", "e", "g">>, "image/jpeg">>,
      <<<<"g", "i", "f">>, "image/gif">>,
      <<<<"w", "e", "b", "p">>, "image/webp">>,
      <<<<"m", "p", "4">>, "video/mp4">>,
      <<<<"m", "o", "v">>, "video/quicktime">>,
      <<<<"a", "v", "i">>, "video/avi">> }

detectMimeTypeFromExtension(filename) ==
    IF filename = <<>> THEN Null
    ELSE LET extension == LastDotPart(toLowerCase(filename))
         IN  IF \E e \in ExtensionTable : e[1] = extension
             THEN (CHOOSE e \in ExtensionTable : e[1] = extension)[2]
             ELSE Null

\* a JavaScript string or null used as a condition: null and '' are falsy
Truthy(v) == v # Null /\ v # ""

\* faulty variant: the transport-reported type is preferred to the extension
detectMimeTypeHeaderFirst(buffer, filename, headerContentType) ==
    LET contentMimeType == detectMimeTypeFromContent(buffer)
        extensionMimeType == IF filename # <<>> THEN detectMimeTypeFromExtension(filename)
                             ELSE Null
        headerMimeType == IF Truthy(headerContentType) /\ headerContentType # OctetStream
                          THEN headerContentType ELSE Null
    IN  IF Truthy(contentMimeType) THEN contentMimeType
        ELSE IF Truthy(headerMimeType) THEN headerMimeType
        ELSE IF Truthy(extensionMimeType) THEN extensionMimeType
        ELSE OctetStream

detectMimeType(buffer, filename, headerContentType) ==
    LET contentMimeType == detectMimeTypeFromContent(buffer)
        extensionMimeType == IF filename # <<>> THEN detectMimeTypeFromExtension(filename)
                             ELSE Null
        headerMimeType == IF Truthy(headerContentType) /\ headerContentType # OctetStream
                          THEN headerContentType ELSE Null
    IN  IF Truthy(contentMimeType) THEN contentMimeType
        ELSE IF Truthy(extensionMimeType) THEN extensionMimeType
        ELSE IF Truthy(headerMimeType) THEN headerMimeType
        ELSE OctetStream

\* ------------------------------------------------------------------------
\* Specification of the normalizer: cleanText applied twice to a raw text
\* ------------------------------------------------------------------------
FullAlphabet == {"a", "m", "A", ".", "1", "O", " ", "\n", "NBSP", "ELL"}
WsAlphabet == {"a", ".", " ", "\n"}

RawTexts == SeqsUpTo(FullAlphabet, MaxLen) \cup SeqsUpTo(WsAlphabet, MaxWsLen)

CleanIdle == cpc = "idle" /\ input = <<>> /\ pass1 = <<>> /\ pass2 = <<>> /\ again = <<>>
MimeIdle ==
    mpc = "idle" /\ mbuffer = <<>> /\ mfilename = <<>> /\ mheader = Null /\ mresult = Null
DownloadIdle ==
    /\ dpc = "idle" /\ durl = <<>> /\ denv = <<>>
    /\ requests = <<>> /\ outcomes = <<>> /\ returned = <<>> /\ thrown = <<>>
ExtractIdle ==
    /\ epc = "idle" /\ strategy = "none" /\ ebuffer = <<>> /\ eoptions = <<>>
    /\ tesseract = FALSE /\ tesseractWorker = "null" /\ parsed = <<>> /\ caught = <<>>
    /\ readerError = <<>> /\ cleanedTexts = <<>>
    /\ ocrCaller = "none" /\ ocrCalls = 0 /\ eresult = <<>> /\ ethrown = <<>>
ProcessIdle ==
    /\ ppc = "idle" /\ fileUrl = <<>> /\ poptions = <<>> /\ fileData = <<>>
    /\ presult = <<>> /\ pthrown = <<>>
OcrIdle ==
    /\ opc = <<>> /\ omode = <<>> /\ tempDir = <<>> /\ tmpdirs = {} /\ engines = 0
    /\ recognizedOn = <<>>
HandlerIdle ==
    /\ hpc = "idle" /\ hrequest = <<>> /\ hcalls = <<>> /\ hresponses = <<>>
WorkerIdle ==
    /\ wpc = <<>> /\ woptions = <<>> /\ wlocal = <<>> /\ workerHandle = 0 /\ workers = <<>>

CleanInit ==
    /\ cpc = "start"
    /\ input \in RawTexts
    /\ pass1 = <<>>
    /\ pass2 = <<>>
    /\ again = <<>>
    /\ MimeIdle /\ DownloadIdle /\ ExtractIdle /\ ProcessIdle /\ OcrIdle /\ HandlerIdle /\ WorkerIdle

CleanOnce ==
    /\ cpc = "start"
    /\ pass1' \in CleanTextOutcomes(input)
    /\ cpc' = "once"
    /\ UNCHANGED <<input, pass2, again, notClean>>

CleanTwice ==
    /\ cpc = "once"
    /\ pass2' \in CleanTextOutcomes(pass1)
    /\ cpc' = "twice"
    /\ UNCHANGED <<input, pass1, again, notClean>>

\* a second, independent call of cleanText on the same raw text
CleanAgain ==
    /\ cpc \in {"once", "twice"}
    /\ again = <<>>
    /\ \E text \in CleanTextOutcomes(input) : again' = <<text>>
    /\ UNCHANGED <<cpc, input, pass1, pass2, notClean>>

CleanNext == CleanOnce \/ CleanTwice \/ CleanAgain

SpecClean == CleanInit /\ [][CleanNext]_vars

\* ------------------------------------------------------------------------
\* Properties of the normalizer
\* ------------------------------------------------------------------------

\* C9: cleanText is idempotent: applying it to its own output changes nothing.
CleanTextIdempotent == cpc = "twice" => pass2 = pass1

\* a text whose whitespace runs are all a single non-newline whitespace
\* character or a pair of newlines
WhitespaceRunsBounded(s) ==
    /\ \A i \in 1..(Len(s) - 2) : ~(s[i] = "\n" /\ s[i + 1] = "\n" /\ s[i + 2] = "\n")
    /\ \A i \in 1..(Len(s) - 1) :
           (IsWs(s[i]) /\ IsWs(s[i + 1])) => (s[i] = "\n" /\ s[i + 1] = "\n")

\* C10: the output of cleanText has no run of more than 2 newlines and no
\* run of more than 1 whitespace character other than a paragraph break.
CleanTextWhitespaceBounded ==
    /\ cpc \in {"once", "twice"} => WhitespaceRunsBounded(pass1)
    /\ cpc = "twice" => WhitespaceRunsBounded(pass2)

\* a raw text with a longer whitespace run strictly inside it, cleaned to a
\* text that still separates the two sides
CleanTextWhitespaceWitness ==
    /\ cpc = "once"
    /\ \E i \in 2..(Len(input) - 2) :
           /\ ~IsWs(input[i - 1])
           /\ IsWs(input[i]) /\ IsWs(input[i + 1])
           /\ \E j \in (i + 2)..Len(input) : ~IsWs(input[j])
    /\ ~WhitespaceRunsBounded(input)
    /\ \E j \in 1..Len(pass1) : IsWs(pass1[j])

\* C11: cleanText is deterministic: two calls on the same raw text return
\* the same text.
CleanTextDeterministic == again # <<>> => again[1] = pass1

\* ------------------------------------------------------------------------
\* Specification of MIME type resolution: detectMimeType on one download
\* ------------------------------------------------------------------------
ByteAlphabet == {37, 80, 68, 70, 165}     \* '%', 'P', 'D', 'F' and '%' with the high bit set
Signatures ==
    {PdfSignature, ZipSignature, DocSignature, PngSignature, JpegSignature, Gif87a, Gif89a}
RelsMarker == <<95, 114, 101, 108, 115>>                  \* '_rels'
\* bytes whose hex dump is '0776f72642f0': the dump holds '776f72642f' from
\* its second digit on
ShiftedMarker == <<7, 118, 247, 38, 66, 240>>
\* zero bytes up to the end of the part of the buffer that is dumped
Padding == [i \in 1..(HexScanLimit - 4) |-> 0]
Tails ==
    {<<>>, <<0>>, WordMarker, <<7>> \o WordMarker, RelsMarker, ShiftedMarker,
     Padding \o WordMarker}

Buffers ==
    SeqsUpTo(ByteAlphabet, MaxBufLen) \cup {sig \o tail : sig \in Signatures, tail \in Tails}

Filenames ==
    { <<>>,
      <<"a", ".", "p", "d", "f">>,
      <<"a", ".", "P", "D", "F">>,
      <<"p", "d", "f">>,
      <<"a", ".", "d", "o", "c", "x">>,
      <<"a", ".", "p", "n", "g">>,
      <<"a", ".", "t", "x", "t">>,
      <<"a", ".", "b", "i", "n">>,
      <<"a", ".", "p", "d", "f", ".", "b", "i", "n">> }

HeaderContentTypes == {Null, "", OctetStream, PdfMime, "text/html", "image/png"}

MimeInit ==
    /\ mpc = "start"
    /\ mbuffer \in Buffers
    /\ mfilename \in Filenames
    /\ mheader \in HeaderContentTypes
    /\ mresult = Null
    /\ CleanIdle /\ DownloadIdle /\ ExtractIdle /\ ProcessIdle /\ OcrIdle /\ HandlerIdle /\ WorkerIdle

Detect ==
    /\ mpc = "start"
    /\ mresult' = detectMimeType(mbuffer, mfilename, mheader)
    /\ mpc' = "done"
    /\ UNCHANGED <<mbuffer, mfilename, mheader, notMime>>

MimeNext == Detect

SpecMime == MimeInit /\ [][MimeNext]_vars

\* C4: the resolved type is the byte-signature result when sniffing yields
\* one; otherwise the extension-inferred type when the file name has a
\* recognised extension; otherwise the transport-reported content type;
\* otherwise application/octet-stream.
MimePriorityOrder ==
    mpc = "done" =>
        LET sniffed == detectMimeTypeFromContent(mbuffer)
            inferred == detectMimeTypeFromExtension(mfilename)
        IN  /\ sniffed # Null => mresult = sniffed
            /\ (sniffed = Null /\ inferred # Null) => mresult = inferred
            /\ (sniffed = Null /\ inferred = Null /\ mheader \notin {Null, ""})
                   => mresult = mheader
            /\ (sniffed = Null /\ inferred = Null /\ mheader \in {Null, ""})
                   => mresult = OctetStream

\* no signature, a recognised extension and a transport type that disagrees
MimePriorityWitness ==
    /\ mpc = "done"
    /\ detectMimeTypeFromContent(mbuffer) = Null
    /\ detectMimeTypeFromExtension(mfilename) = DocxMime
    /\ mheader = "text/html"
    /\ mresult = DocxMime

StartsWithPdfBytes(buffer) == Len(buffer) >= 4 /\ SubSeq(buffer, 1, 4) = PdfSignature

\* C5: a buffer whose first four bytes are %PDF resolves to application/pdf
\* whatever the transport content type and the file name are.
PdfBytesResolveToPdf ==
    (mpc = "done" /\ StartsWithPdfBytes(mbuffer)) => mresult = PdfMime

\* a %PDF buffer named .docx and served as image/png
PdfBytesWitness ==
    /\ mpc = "done"
    /\ StartsWithPdfBytes(mbuffer)
    /\ detectMimeTypeFromExtension(mfilename) = DocxMime
    /\ mheader = "image/png"
    /\ mresult = PdfMime

\* ------------------------------------------------------------------------
\* downloadFile.  A URL is the sequence url.split('/') of its parts, each a
\* sequence of characters.
\* ------------------------------------------------------------------------
Https == <<"h", "t", "t", "p", "s", ":">>
CloudinaryHost ==
    <<"r", "e", "s", ".", "c", "l", "o", "u", "d", "i", "n", "a", "r", "y", ".", "c", "o", "m">>
UploadPart == <<"u", "p", "l", "o", "a", "d">>
RawPart == <<"r", "a", "w">>
ImagePart == <<"i", "m", "a", "g", "e">>
AttachmentFlag == <<"f", "l", "_", "a", "t", "t", "a", "c", "h", "m", "e", "n", "t">>
AuthFlags == AttachmentFlag \o <<",", "f", "_", "a", "u", "t", "o", ",", "q", "_", "a", "u", "t", "o">>
DotPdf == <<".", "p", "d", "f">>

\* decodeURIComponent throws URIError on a malformed escape; the only '%'
\* in the URLs modelled are malformed ones, every other part decodes to itself
DecodeFails(part) == \E i \in 1..Len(part) : part[i] = "%"

\* v\d+
IsVersion(part) ==
    Len(part) >= 2 /\ part[1] = "v" /\ \A i \in 2..Len(part) : part[i] \in Digit

\* decoded.match(/(?:v\d+_)?(.+)$/)
StripVersionPrefix(decoded) ==
    LET n == IF decoded # <<>> /\ decoded[1] = "v" THEN RunLen(Tail(decoded), Digit) ELSE 0
    IN  IF n >= 1 /\ Len(decoded) > n + 2 /\ decoded[n + 2] = "_"
        THEN Drop(decoded, n + 2) ELSE decoded

\* null is written <<>>
extractFilenameFromUrl(url) ==
    LET lastPart == url[Len(url)]
    IN  IF DecodeFails(lastPart) THEN <<>> ELSE StripVersionPrefix(lastPart)

\* url.match(/https:\/\/res\.cloudinary\.com\/([^\/]+)/); null is written <<>>
extractCloudName(url) ==
    LET hits == {i \in 1..(Len(url) - 3) :
                    /\ Len(url[i]) >= Len(Https)
                    /\ SubSeq(url[i], Len(url[i]) - Len(Https) + 1, Len(url[i])) = Https
                    /\ url[i + 1] = <<>>
                    /\ url[i + 2] = CloudinaryHost
                    /\ url[i + 3] # <<>>}
    IN  IF hits = {} THEN <<>>
        ELSE url[(CHOOSE i \in hits : \A j \in hits : i <= j) + 3]

\* the parts joined by '/' make a non-empty string
NonEmptyPath(parts) == Len(parts) >= 2 \/ (Len(parts) = 1 /\ parts[1] # <<>>)

\* url.match(/\/upload\/(?:v\d+\/)?(.+)$/), then decodeURIComponent; the
\* public id is the sequence of its parts and null is written <<>>
extractPublicId(url) ==
    LET hits == {i \in 2..(Len(url) - 1) :
                    url[i] = UploadPart /\ NonEmptyPath(Drop(url, i))}
    IN  IF hits = {} THEN <<>>
        ELSE LET rest == Drop(url, CHOOSE i \in hits : \A j \in hits : i <= j)
                 publicId == IF IsVersion(rest[1]) /\ NonEmptyPath(Tail(rest))
                             THEN Tail(rest) ELSE rest
             IN  IF \E k \in 1..Len(publicId) : DecodeFails(publicId[k])
                 THEN <<>> ELSE publicId

EndsWith(s, suffix) ==
    Len(s) >= Len(suffix) /\ SubSeq(s, Len(s) - Len(suffix) + 1, Len(s)) = suffix

\* extractCloudName(url) || CLOUDINARY_CLOUD_NAME
CloudNameFor(url, env) ==
    IF extractCloudName(url) # <<>> THEN extractCloudName(url) ELSE env.cloudName

\* `https://res.cloudinary.com/${cloudName}/raw/upload/${publicId}` or .../image/upload/...
ReconstructedUrl(url, env) ==
    LET filename == extractFilenameFromUrl(url)
        isPdf == filename # <<>> /\ EndsWith(toLowerCase(filename), DotPdf)
    IN  <<Https, <<>>, CloudinaryHost, CloudNameFor(url, env),
          IF isPdf THEN RawPart ELSE ImagePart, UploadPart>> \o extractPublicId(url)

\* `https://res.cloudinary.com/${cloudName}/raw/upload/fl_attachment/${publicId}`
AttachmentUrl(url, env) ==
    <<Https, <<>>, CloudinaryHost, CloudNameFor(url, env), RawPart, UploadPart,
      AttachmentFlag>> \o extractPublicId(url)

\* `.../image/upload/fl_attachment,f_auto,q_auto/${publicId}?api_key=..&timestamp=..&signature=..`
\* the query string is written as the part <<"?", api key, api secret>>
AuthenticatedUrl(url, env) ==
    <<Https, <<>>, CloudinaryHost, CloudNameFor(url, env), ImagePart, UploadPart,
      AuthFlags>> \o extractPublicId(url) \o <<<<"?", env.apiKey, env.apiSecret>>>>

\* faulty variant: the reconstructed URLs are tried only with an API key and
\* secret
IsProviderUrlWithKeys(url, env) ==
    /\ extractPublicId(url) # <<>> /\ CloudNameFor(url, env) # <<>>
    /\ Truthy(env.apiKey) /\ Truthy(env.apiSecret)

\* if (publicId && cloudName)
IsProviderUrl(url, env) == extractPublicId(url) # <<>> /\ CloudNameFor(url, env) # <<>>

\* CLOUDINARY_API_KEY && CLOUDINARY_API_SECRET
HasCredentials(env) == Truthy(env.apiKey) /\ Truthy(env.apiSecret)

\* the statuses a server answers with; 0 stands for a request that gets no
\* response (timeout, connection error)
ResponseStatuses == {0, 200, 204, 404, 500}

\* axios resolves the promise when validateStatus accepts the status
\* method 1: validateStatus: (status) => status < 500; the others: 2xx
Resolves(method, status) ==
    IF method = 1 THEN status # 0 /\ status < 500
    ELSE status >= 200 /\ status < 300

\* the strategy returns the response: method 1 also wants status === 200
Succeeds(method, status) ==
    Resolves(method, status) /\ (method = 1 => status = 200)

\* faulty variant: the error of the single-GET variant, which carries no originalUrl
DownloadFailedWithoutUrl(url) ==
    [code |-> "DOWNLOAD_FAILED",
     message |-> "No response received from server",
     status |-> 500]

DownloadFailed(url) ==
    [code |-> "DOWNLOAD_FAILED",
     message |-> "Failed to download file: All download methods failed",
     status |-> 500,
     originalUrl |-> url]

\* faulty variant: a failed direct GET ends the call
NextMethodAborting(method) ==
    CASE method = 2 -> "m3" [] method = 3 -> "m4" [] OTHER -> "thrown"

\* faulty variant: the reconstructed URL is passed over
NextMethodSkipping(method) ==
    CASE method = 1 -> "m3" [] method = 2 -> "m3" [] method = 3 -> "m4" [] OTHER -> "thrown"

NextMethod(method) ==
    CASE method = 1 -> "m2" [] method = 2 -> "m3" [] method = 3 -> "m4" [] OTHER -> "thrown"

\* maxContentLength: 50 * 1024 * 1024, the limit of the earlier single-GET
\* downloadFile
MaxContentLength == 52428800

\* A response body is written as its leading bytes `data` and the number
\* `zeros` of zero bytes that follow them, so that bodies of tens of
\* megabytes can be written down.
ResponseBodies == {<<>>, PdfSignature, PngSignature, ZipSignature \o WordMarker, <<37, 80>>}
ResponsePaddings == {0, MaxContentLength - 4, MaxContentLength + 1}
ResponseContentTypes == {Null, PdfMime, "image/png"}

\* the bytes of such a body that detectMimeType can tell apart: the leading
\* bytes and up to 8 of the zero bytes (no signature is longer, and the hex
\* dump of zero bytes holds no marker)
Leading(data, zeros) == data \o [i \in 1..Min(zeros, 8) |-> 0]

\* the axios request of each of the four strategies: none sets maxContentLength
RequestConfig(method, reqUrl) ==
    [method |-> method, url |-> reqUrl, maxContentLength |-> <<>>]

\* axios rejects a response longer than config.maxContentLength, when one is set
WithinMaxContentLength(config, length) ==
    config.maxContentLength = <<>> \/ length <= config.maxContentLength[1]

\* one strategy: a GET of reqUrl; a response the strategy accepts is
\* returned, anything else is logged and the next strategy follows; after
\* the last one the outer catch throws DOWNLOAD_FAILED
Attempt(method, reqUrl, resultUrl) ==
    /\ requests' = Append(requests, RequestConfig(method, reqUrl))
    /\ \E status \in ResponseStatuses, data \in ResponseBodies, zeros \in ResponsePaddings,
          contentType \in ResponseContentTypes :
          IF /\ Succeeds(method, status)
             /\ WithinMaxContentLength(RequestConfig(method, reqUrl), Len(data) + zeros)
          THEN /\ outcomes' = Append(outcomes,
                     [method |-> method, status |-> status, result |-> "ok",
                      data |-> data, zeros |-> zeros, contentType |-> contentType])
               /\ returned' = <<[buffer |-> data,
                                 zeros |-> zeros,
                                 mimeType |-> detectMimeType(Leading(data, zeros),
                                                 extractFilenameFromUrl(durl), contentType),
                                 size |-> Len(data) + zeros,
                                 url |-> resultUrl]>>
               /\ dpc' = "returned"
               /\ UNCHANGED thrown
          ELSE /\ outcomes' = Append(outcomes,
                        [method |-> method, status |-> status, result |-> "failed",
                         data |-> <<>>, zeros |-> 0, contentType |-> Null])
               /\ dpc' = NextMethod(method)
               /\ thrown' = IF method = 4 THEN <<DownloadFailed(durl)>> ELSE thrown
               /\ UNCHANGED returned
    /\ UNCHANGED <<durl, denv, notDl>>

\* the strategy's condition is false: no request is made
Skip(method) ==
    /\ outcomes' = Append(outcomes,
            [method |-> method, status |-> 0, result |-> "skipped",
             data |-> <<>>, zeros |-> 0, contentType |-> Null])
    /\ dpc' = NextMethod(method)
    /\ thrown' = IF method = 4 THEN <<DownloadFailed(durl)>> ELSE thrown
    /\ UNCHANGED <<durl, denv, requests, returned, notDl>>

\* Method 1: direct download from the original URL
Method1 ==
    /\ dpc = "m1"
    /\ Attempt(1, durl, durl)

\* faulty variant: the reconstructed URL is requested for every URL
Method2Unconditional ==
    /\ dpc = "m2"
    /\ Attempt(2, ReconstructedUrl(durl, denv), ReconstructedUrl(durl, denv))

\* Method 2: the reconstructed URL with the resource type of the file name
Method2 ==
    /\ dpc = "m2"
    /\ IF IsProviderUrl(durl, denv)
       THEN Attempt(2, ReconstructedUrl(durl, denv), ReconstructedUrl(durl, denv))
       ELSE Skip(2)

\* Method 3: the fl_attachment URL
Method3 ==
    /\ dpc = "m3"
    /\ IF IsProviderUrl(durl, denv)
       THEN Attempt(3, AttachmentUrl(durl, denv), AttachmentUrl(durl, denv))
       ELSE Skip(3)

\* Method 4: the delivery URL signed with the API key and secret
Method4 ==
    /\ dpc = "m4"
    /\ IF IsProviderUrl(durl, denv) /\ HasCredentials(denv)
       THEN Attempt(4, AuthenticatedUrl(durl, denv), AuthenticatedUrl(durl, denv))
       ELSE Skip(4)

DemoCloud == <<"d", "e", "m", "o">>
OtherHost == <<"x", ".", "o", "r", "g">>
FileA == <<"a", ".", "p", "d", "f">>
FileB == <<"v", "1", "_", "b", ".", "d", "o", "c", "x">>
FileBad == <<"a", "%", ".", "p", "d", "f">>

Urls ==
    { <<Https, <<>>, CloudinaryHost, DemoCloud, ImagePart, UploadPart, <<"v", "1">>, FileA>>,
      <<Https, <<>>, CloudinaryHost, DemoCloud, RawPart, UploadPart, FileB>>,
      <<Https, <<>>, CloudinaryHost, DemoCloud, ImagePart, UploadPart, FileBad>>,
      <<Https, <<>>, CloudinaryHost, DemoCloud, FileA>>,
      <<Https, <<>>, OtherHost, UploadPart, FileA>>,
      <<Https, <<>>, OtherHost, FileA>>,
      <<Https, <<>>, OtherHost, <<>>>> }

Environments ==
    [cloudName : {<<>>, DemoCloud}, apiKey : {Null, "key"}, apiSecret : {Null, "secret"}]

DownloadInit ==
    /\ dpc = "m1"
    /\ durl \in Urls
    /\ denv \in Environments
    /\ requests = <<>>
    /\ outcomes = <<>>
    /\ returned = <<>>
    /\ thrown = <<>>
    /\ CleanIdle /\ MimeIdle /\ ExtractIdle /\ ProcessIdle /\ OcrIdle /\ HandlerIdle /\ WorkerIdle

DownloadNext == Method1 \/ Method2 \/ Method3 \/ Method4

SpecDownload == DownloadInit /\ [][DownloadNext]_vars

\* ------------------------------------------------------------------------
\* The extraction strategies of pdfProcessor.js
\* ------------------------------------------------------------------------
SparseWordLimit == 10
MaxWords == 10     \* the longest sample text has this many words

\* s.split(/\s+/).length: one more than the number of whitespace runs
SplitLength(s) ==
    Cardinality({i \in 1..Len(s) : IsWs(s[i]) /\ (i = 1 \/ ~IsWs(s[i - 1]))}) + 1

\* s.split(/\s+/).filter(Boolean).length: the number of non-empty pieces
FilteredSplitLength(s) ==
    Cardinality({i \in 1..Len(s) : ~IsWs(s[i]) /\ (i = 1 \/ IsWs(s[i - 1]))})

\* buffer.toString('utf8') for buffers of the bytes below; a byte that is
\* no valid UTF-8 decodes to U+FFFD, written "FFFD"
Utf8Table ==
    { <<10, "\n">>, <<32, " ">>, <<37, "%">>, <<46, ".">>, <<65, "A">>, <<68, "D">>,
      <<70, "F">>, <<80, "P">>, <<97, "a">>, <<109, "m">> }

Utf8Char(b) ==
    IF \E e \in Utf8Table : e[1] = b THEN (CHOOSE e \in Utf8Table : e[1] = b)[2] ELSE "FFFD"

Utf8Decode(buffer) == [i \in 1..Len(buffer) |-> Utf8Char(buffer[i])]

Utf8Byte(c) == (CHOOSE e \in Utf8Table : e[2] = c)[1]

Utf8Encode(text) == [i \in 1..Len(text) |-> Utf8Byte(text[i])]

\* the text extractTextWithOCR returns when neither isPngAsPdf nor directImageOcr is set
OcrPlaceholder ==
    <<"O", "C", "R", " ", "e", "x", "t", "r", "a", "c", "t", "i", "o", "n", " ", "n", "o",
       "t", " ", "f", "u", "l", "l", "y", " ", "i", "m", "p", "l", "e", "m", "e", "n", "t",
       "e", "d", " ", "f", "o", "r", " ", "P", "D", "F", " ", "d", "o", "c", "u", "m", "e",
       "n", "t", "s">>

InvalidBufferMessage == <<"Invalid PDF buffer">>
NotPdfMessage == <<"File is not a valid PDF">>
OcrFailedMessage == <<"Failed to extract text using OCR">>

OcrFailed == [code |-> "OCR_FAILED", message |-> OcrFailedMessage, status |-> 500]
OcrUnavailable == [message |-> <<"OCR dependencies not available">>]

PdfExtractionFailed(error) ==
    [code |-> "PDF_EXTRACTION_FAILED",
     message |-> <<"Failed to extract text from PDF: ">> \o error.message,
     status |-> 500]

\* faulty variant: the reader's error is thrown on as it is
DocxReaderErrorRethrown(error) == error

DocxExtractionFailed(error) ==
    [code |-> "DOCX_EXTRACTION_FAILED",
     message |-> <<"Failed to extract text from DOCX: ">> \o error.message,
     status |-> 500]

\* faulty variant: OCR is tried whenever the engine is there, whatever enableOCR says
EscalatesToOcrWithoutOption(wordCount, options) ==
    wordCount < SparseWordLimit /\ tesseract

\* faulty variant: OCR is tried only for a text layer with no words at all
EscalatesToOcrOnEmptyOnly(wordCount, options) ==
    wordCount <= 1 /\ options.enableOCR /\ tesseract

\* if (wordCount < 10 && options.enableOCR && Tesseract)
EscalatesToOcr(wordCount, options) ==
    wordCount < SparseWordLimit /\ options.enableOCR /\ tesseract

\* if (options.enableOCR && Tesseract && error.message !== 'File is not a valid PDF')
FallsBackToOcr(error, options) ==
    options.enableOCR /\ tesseract /\ error.message # NotPdfMessage

\* the metadata of the PDF, DOCX and TXT strategies; confidence in hundredths
TextMetadata(raw, cleaned, pages, method, confidence) ==
    [totalPages |-> pages, wordCount |-> SplitLength(cleaned),
     extractionMethod |-> method, confidence |-> confidence]

\* the metadata of extractTextWithOCR
OcrMetadata(text, confidence) ==
    [totalPages |-> 1, wordCount |-> FilteredSplitLength(text),
     extractionMethod |-> "ocr", confidence |-> confidence]

Return(result) ==
    /\ eresult' = <<result>>
    /\ epc' = "done"
    /\ UNCHANGED ethrown

Throw(error) ==
    /\ ethrown' = <<error>>
    /\ epc' = "failed"
    /\ UNCHANGED eresult

\* sample texts: n words of one letter, and texts whose raw and cleaned
\* forms differ
RECURSIVE WordsText(_)
WordsText(n) ==
    IF n = 0 THEN <<>> ELSE IF n = 1 THEN <<"a">> ELSE WordsText(n - 1) \o <<" ", "a">>

SampleTexts ==
    {WordsText(n) : n \in 0..MaxWords}
        \cup { <<" ">>, <<"a", ".", "A">>, <<"m", "a">>,
               <<" ", "a", " ", " ", "a", "\n">>, <<"a", ".", "\n", "a">> }

PageCounts == {1, 3}
LibraryMessages == {<<"Invalid PDF structure">>}

\* extractTextFromPDF up to the end of `await pdfParse(buffer, ..)`
PdfStart ==
    /\ epc = "start" /\ strategy = "pdf"
    /\ IF Len(ebuffer) < 4
       THEN /\ caught' = <<[message |-> InvalidBufferMessage]>>
            /\ epc' = "pdf_catch"
            /\ UNCHANGED <<parsed, readerError>>
       ELSE IF ~eoptions.skipSignatureCheck /\ ToAscii(Slice(ebuffer, 4)) # PdfSignature
       THEN /\ caught' = <<[message |-> NotPdfMessage]>>
            /\ epc' = "pdf_catch"
            /\ UNCHANGED <<parsed, readerError>>
       ELSE \/ \E text \in SampleTexts, pages \in PageCounts :
                 /\ parsed' = <<[text |-> text, numpages |-> pages]>>
                 /\ epc' = "pdf_parsed"
                 /\ UNCHANGED <<caught, readerError>>
            \/ \E message \in LibraryMessages :
                 /\ readerError' = <<[message |-> message]>>
                 /\ IF eoptions.skipSignatureCheck
                    THEN /\ parsed' = <<[text |-> <<>>, numpages |-> 1]>>
                         /\ epc' = "pdf_parsed"
                         /\ UNCHANGED caught
                    ELSE /\ caught' = <<[message |-> message]>>
                         /\ epc' = "pdf_catch"
                         /\ UNCHANGED parsed
    /\ UNCHANGED <<strategy, ebuffer, eoptions, tesseract, tesseractWorker, cleanedTexts,
                   ocrCaller, ocrCalls, eresult, ethrown, notEx>>

\* extractTextFromPDF from the word count to the return or the call of OCR
PdfParsed ==
    /\ epc = "pdf_parsed"
    /\ LET extractedText == parsed[1].text
           wordCount == SplitLength(Trim(extractedText))
       IN  IF EscalatesToOcr(wordCount, eoptions)
           THEN /\ epc' = "ocr"
                /\ ocrCaller' = "sparse"
                /\ UNCHANGED <<eresult, ethrown, cleanedTexts>>
           ELSE /\ \E cleanedText \in CleanTextOutcomes(extractedText) :
                     /\ cleanedTexts' = Append(cleanedTexts, cleanedText)
                     /\ Return([text |-> cleanedText,
                                metadata |-> TextMetadata(extractedText, cleanedText,
                                                          parsed[1].numpages, "text", 95)])
                /\ UNCHANGED ocrCaller
    /\ UNCHANGED <<strategy, ebuffer, eoptions, tesseract, tesseractWorker, parsed, caught,
                   readerError, ocrCalls, notEx>>

\* the catch block of extractTextFromPDF up to the call of OCR or the throw
PdfCatch ==
    /\ epc = "pdf_catch"
    /\ IF FallsBackToOcr(caught[1], eoptions)
       THEN /\ epc' = "ocr"
            /\ ocrCaller' = "fallback"
            /\ UNCHANGED <<eresult, ethrown>>
       ELSE /\ Throw(PdfExtractionFailed(caught[1]))
            /\ UNCHANGED ocrCaller
    /\ UNCHANGED <<strategy, ebuffer, eoptions, tesseract, tesseractWorker, parsed, caught,
                   readerError, cleanedTexts, ocrCalls, notEx>>

\* what the awaiting caller does with the result of extractTextWithOCR
OcrReturns(result) ==
    /\ Return(result)
    /\ UNCHANGED caught

\* ... and with its failure: the sparse-text call sits in the try block of
\* extractTextFromPDF, the fallback call in a try of its own inside the catch
OcrThrows(error) ==
    /\ CASE ocrCaller = "sparse" ->
               /\ caught' = <<error>>
               /\ epc' = "pdf_catch"
               /\ UNCHANGED <<eresult, ethrown>>
         [] ocrCaller = "fallback" ->
               /\ Throw(PdfExtractionFailed(caught[1]))
               /\ UNCHANGED caught
         [] OTHER ->
               /\ Throw(error)
               /\ UNCHANGED caught
    /\ UNCHANGED cleanedTexts

OcrTexts == {<<>>, <<"a", " ", " ", "a">>, <<"m", "a">>, <<"a", ".", "A">>}
OcrConfidences == {0, 87, 100}

\* one call of extractTextWithOCR
OcrCall ==
    /\ epc = "ocr"
    /\ ocrCalls' = ocrCalls + 1
    /\ IF ~tesseract
       THEN OcrThrows(OcrUnavailable) /\ UNCHANGED tesseractWorker
       ELSE \/ \* fs.mkdtempSync throws
               OcrThrows(OcrFailed) /\ UNCHANGED tesseractWorker
            \/ /\ ~(eoptions.isPngAsPdf \/ eoptions.directImageOcr)
               /\ OcrReturns([text |-> OcrPlaceholder,
                              metadata |-> OcrMetadata(OcrPlaceholder, 70)])
               /\ UNCHANGED <<tesseractWorker, cleanedTexts>>
            \/ \* Tesseract.createWorker() rejects
               /\ eoptions.isPngAsPdf \/ eoptions.directImageOcr
               /\ tesseractWorker = "null"
               /\ OcrThrows(OcrFailed) /\ UNCHANGED tesseractWorker
            \/ \* loadLanguage or initialize rejects: the worker stays assigned
               /\ eoptions.isPngAsPdf \/ eoptions.directImageOcr
               /\ tesseractWorker = "null"
               /\ tesseractWorker' = "created"
               /\ OcrThrows(OcrFailed)
            \/ \* recognize rejects
               /\ eoptions.isPngAsPdf \/ eoptions.directImageOcr
               /\ tesseractWorker' = IF tesseractWorker = "null" THEN "ready"
                                     ELSE tesseractWorker
               /\ OcrThrows(OcrFailed)
            \/ \* recognize resolves with {text, confidence}
               /\ eoptions.isPngAsPdf \/ eoptions.directImageOcr
               /\ tesseractWorker' = IF tesseractWorker = "null" THEN "ready"
                                     ELSE tesseractWorker
               /\ \E raw \in OcrTexts, confidence \in OcrConfidences :
                     \E text \in CleanTextOutcomes(raw) :
                        /\ cleanedTexts' = Append(cleanedTexts, text)
                        /\ OcrReturns([text |-> text,
                                       metadata |-> OcrMetadata(text, confidence)])
    /\ UNCHANGED <<strategy, ebuffer, eoptions, tesseract, parsed, readerError, ocrCaller,
                   notEx>>

\* extractTextFromDOCX
Docx ==
    /\ epc = "start" /\ strategy = "docx"
    /\ \/ \* mammoth opens the buffer as a zip archive
          /\ Slice(ebuffer, 4) = ZipSignature
          /\ \E extractedText \in SampleTexts :
                \E cleanedText \in CleanTextOutcomes(extractedText) :
                   /\ cleanedTexts' = Append(cleanedTexts, cleanedText)
                   /\ Return([text |-> cleanedText,
                              metadata |-> TextMetadata(extractedText, cleanedText, 1,
                                                        "docx", 98)])
       \/ /\ \E message \in {<<"Can't find end of central directory">>} :
                Throw(DocxExtractionFailed([message |-> message]))
          /\ UNCHANGED cleanedTexts
    /\ UNCHANGED <<strategy, ebuffer, eoptions, tesseract, tesseractWorker, parsed, caught,
                   readerError, ocrCaller, ocrCalls, notEx>>

\* extractTextFromTXT
Txt ==
    /\ epc = "start" /\ strategy = "txt"
    /\ LET text == Utf8Decode(ebuffer)
       IN  \E cleanedText \in CleanTextOutcomes(text) :
              /\ cleanedTexts' = Append(cleanedTexts, cleanedText)
              /\ Return([text |-> cleanedText,
                         metadata |-> TextMetadata(text, cleanedText, 1, "txt", 100)])
    /\ UNCHANGED <<strategy, ebuffer, eoptions, tesseract, tesseractWorker, parsed, caught,
                   readerError, ocrCaller, ocrCalls, notEx>>

\* processDocument calling extractTextWithOCR itself
DirectOcr ==
    /\ epc = "start" /\ strategy = "ocr"
    /\ epc' = "ocr"
    /\ ocrCaller' = "direct"
    /\ UNCHANGED <<strategy, ebuffer, eoptions, tesseract, tesseractWorker, parsed, caught,
                   readerError, cleanedTexts, ocrCalls, eresult, ethrown, notEx>>

Options ==
    [enableOCR : BOOLEAN, skipSignatureCheck : BOOLEAN,
     isPngAsPdf : BOOLEAN, directImageOcr : BOOLEAN]

PdfBuffers ==
    {<<>>, <<37, 80>>, PdfSignature, PdfSignature \o <<45, 49>>, <<165, 80, 68, 70>>, PngSignature}
DocxBuffers == {<<>>, ZipSignature \o WordMarker}
TxtBuffers == {Utf8Encode(t) : t \in SampleTexts} \cup {<<255>>}

ExtractInit ==
    /\ epc = "start"
    /\ strategy \in {"pdf", "docx", "txt", "ocr"}
    /\ ebuffer \in (CASE strategy = "pdf" -> PdfBuffers
                      [] strategy = "docx" -> DocxBuffers
                      [] strategy = "txt" -> TxtBuffers
                      [] OTHER -> {PngSignature, <<>>})
    /\ eoptions \in (CASE strategy = "pdf" -> Options
                       [] strategy = "ocr" ->
                            {o \in Options : o.isPngAsPdf \/ o.directImageOcr}
                       [] OTHER -> {o \in Options : ~o.isPngAsPdf /\ ~o.directImageOcr
                                                   /\ ~o.skipSignatureCheck})
    /\ tesseract \in BOOLEAN
    /\ tesseractWorker \in (IF tesseract THEN {"null", "created", "ready"} ELSE {"null"})
    /\ parsed = <<>>
    /\ caught = <<>>
    /\ readerError = <<>> /\ cleanedTexts = <<>>
    /\ ocrCaller = "none"
    /\ ocrCalls = 0
    /\ eresult = <<>>
    /\ ethrown = <<>>
    /\ CleanIdle /\ MimeIdle /\ DownloadIdle /\ ProcessIdle /\ OcrIdle /\ HandlerIdle /\ WorkerIdle

ExtractNext == PdfStart \/ PdfParsed \/ PdfCatch \/ OcrCall \/ Docx \/ Txt \/ DirectOcr

SpecExtract == ExtractInit /\ [][ExtractNext]_vars

\* ------------------------------------------------------------------------
\* processDocument: download, dispatch on the MIME type, extraction
\* ------------------------------------------------------------------------

\* mimeType.startsWith('image/'), over the MIME types of the model
ImageMimes == {"image/png", "image/jpeg", "image/gif", "image/webp"}
IsImage(mimeType) == mimeType \in ImageMimes

LegacyDocMessage == <<"Legacy DOC files are not supported. Please convert to DOCX.">>

UnsupportedLegacyDoc ==
    [code |-> "UNSUPPORTED_FILE_TYPE", message |-> LegacyDocMessage, status |-> 400]

UnsupportedFileType(mimeType) ==
    [code |-> "UNSUPPORTED_FILE_TYPE",
     message |-> <<"Unsupported file type: ", mimeType, ". Supported types: PDF, DOCX, TXT">>,
     status |-> 400]

\* the options object handed to a strategy, reduced to the fields the
\* strategies read; processDocument's own flags are not read by them
StrategyOptions(options, skipSignatureCheck, isPngAsPdf, directImageOcr) ==
    [enableOCR |-> options.enableOCR, skipSignatureCheck |-> skipSignatureCheck,
     isPngAsPdf |-> isPngAsPdf, directImageOcr |-> directImageOcr]

Call(name, options) == [strategy |-> name, options |-> options, error |-> <<>>]
Refuse(error) == [strategy |-> "none", options |-> <<>>, error |-> <<error>>]

\* faulty variant: a legacy DOC file is handed to the DOCX strategy
RouteDocAsDocx(mimeType, options) ==
    IF mimeType = DocMime
    THEN Call("docx", StrategyOptions(options, FALSE, FALSE, FALSE))
    ELSE Refuse(UnsupportedFileType(mimeType))

\* faulty variant: forcePdfMode relabels every image as a PDF, whatever
\* skipPdfValidation says
RouteAlwaysRelabel(mimeType, options) ==
    IF options.useDirectOcr /\ IsImage(mimeType)
    THEN Call("ocr", StrategyOptions(options, FALSE, FALSE, TRUE))
    ELSE IF (options.forcePdfMode /\ IsImage(mimeType)) \/ mimeType = PdfMime
    THEN Call("pdf", StrategyOptions(options, options.skipPdfValidation, FALSE, FALSE))
    ELSE Refuse(UnsupportedFileType(mimeType))

\* faulty variant: whatever is downloaded is read as plain text
RouteAllAsTxt(mimeType, options) ==
    Call("txt", StrategyOptions(options, FALSE, FALSE, FALSE))

\* faulty variant: forcePdfMode is not looked at
RouteWithoutOverride(mimeType, options) ==
    IF options.useDirectOcr /\ IsImage(mimeType)
    THEN Call("ocr", StrategyOptions(options, FALSE, FALSE, TRUE))
    ELSE CASE mimeType = PdfMime ->
                 Call("pdf", StrategyOptions(options, options.skipPdfValidation, FALSE, FALSE))
            [] mimeType = DocxMime ->
                 Call("docx", StrategyOptions(options, FALSE, FALSE, FALSE))
            [] mimeType = DocMime -> Refuse(UnsupportedLegacyDoc)
            [] mimeType = TxtMime ->
                 Call("txt", StrategyOptions(options, FALSE, FALSE, FALSE))
            [] OTHER -> Refuse(UnsupportedFileType(mimeType))

\* what processDocument does with a downloaded file of the given MIME type
Route(mimeType, options) ==
    IF options.useDirectOcr /\ IsImage(mimeType)
    THEN Call("ocr", StrategyOptions(options, FALSE, FALSE, TRUE))
    ELSE IF options.forcePdfMode /\ IsImage(mimeType) /\ options.skipPdfValidation
    THEN Call("ocr", StrategyOptions(options, FALSE, TRUE, FALSE))
    ELSE LET effective == IF options.forcePdfMode /\ IsImage(mimeType) THEN PdfMime
                          ELSE mimeType
         IN  CASE effective = PdfMime ->
                    Call("pdf", StrategyOptions(options, options.skipPdfValidation,
                                                FALSE, FALSE))
               [] effective = DocxMime ->
                    Call("docx", StrategyOptions(options, FALSE, FALSE, FALSE))
               [] effective = DocMime -> Refuse(UnsupportedLegacyDoc)
               [] effective = TxtMime ->
                    Call("txt", StrategyOptions(options, FALSE, FALSE, FALSE))
               [] OTHER -> Refuse(UnsupportedFileType(effective))

\* if (error.code && error.status)
IsTyped(error) == "code" \in DOMAIN error /\ "status" \in DOMAIN error

ProcessingFailed(error) ==
    [code |-> "PROCESSING_FAILED", message |-> <<"Failed to process document">>,
     status |-> 500, originalError |-> error.message]

\* faulty variant: the catch block wraps whatever it catches
SurfacedAlwaysWrapped(error) == ProcessingFailed(error)

\* the catch block of processDocument
Surfaced(error) == IF IsTyped(error) THEN error ELSE ProcessingFailed(error)

ProcessUrls ==
    { <<Https, <<>>, OtherHost, FileA>>,
      <<Https, <<>>, OtherHost, <<"a", ".", "t", "x", "t">>>>,
      <<Https, <<>>, OtherHost, <<"a", ".", "d", "o", "c">>>>,
      <<Https, <<>>, OtherHost, <<"s", "c", "a", "n">>>> }

ProcessBuffers ==
    {<<>>, PdfSignature \o <<45, 49>>, PngSignature, DocSignature, ZipSignature \o WordMarker,
     ZipSignature, <<97, 32, 97>>}

\* a Content-Type that names an image type in a parameter: it does not start
\* with 'image/' and it contains 'image/'
RelatedImageType == "multipart/related; type=image/png"

ProcessContentTypes == {Null, "image/png", TxtMime, "text/html", RelatedImageType}

ProcessOptions ==
    [enableOCR : BOOLEAN, useDirectOcr : BOOLEAN, forcePdfMode : BOOLEAN,
     skipPdfValidation : BOOLEAN]

\* const fileData = await downloadFile(fileUrl)
Fetch ==
    /\ ppc = "start"
    /\ \/ \E buffer \in ProcessBuffers, contentType \in ProcessContentTypes :
             /\ fileData' = <<[buffer |-> buffer,
                               mimeType |-> detectMimeType(buffer,
                                               extractFilenameFromUrl(fileUrl), contentType),
                               size |-> Len(buffer),
                               url |-> fileUrl]>>
             /\ ppc' = "fetched"
             /\ UNCHANGED pthrown
       \/ /\ pthrown' = <<Surfaced(DownloadFailed(fileUrl))>>
          /\ ppc' = "thrown"
          /\ UNCHANGED fileData
    /\ UNCHANGED <<fileUrl, poptions, presult, exVars, notProc>>

\* from the download to the call of a strategy, or to the throw
Dispatch ==
    /\ ppc = "fetched"
    /\ LET route == Route(fileData[1].mimeType, poptions)
       IN  IF route.strategy = "none"
           THEN /\ pthrown' = <<Surfaced(route.error[1])>>
                /\ ppc' = "thrown"
                /\ UNCHANGED <<epc, strategy, ebuffer, eoptions>>
           ELSE /\ strategy' = route.strategy
                /\ ebuffer' = fileData[1].buffer
                /\ eoptions' = route.options
                /\ epc' = "start"
                /\ ppc' = "extracting"
                /\ UNCHANGED pthrown
    /\ UNCHANGED <<fileUrl, poptions, fileData, presult, tesseract, tesseractWorker, parsed,
                   caught, readerError, cleanedTexts, ocrCaller, ocrCalls, eresult, ethrown,
                   notProc>>

\* the strategy's promise settles: its result is returned, its error goes
\* through the catch block
Settle ==
    /\ ppc = "extracting"
    /\ epc \in {"done", "failed"}
    /\ IF epc = "done"
       THEN /\ presult' = eresult
            /\ ppc' = "returned"
            /\ UNCHANGED pthrown
       ELSE /\ pthrown' = <<Surfaced(ethrown[1])>>
            /\ ppc' = "thrown"
            /\ UNCHANGED presult
    /\ UNCHANGED <<fileUrl, poptions, fileData, exVars, notProc>>

ProcessInit ==
    /\ ppc = "start"
    /\ fileUrl \in ProcessUrls
    /\ poptions \in ProcessOptions
    /\ fileData = <<>>
    /\ presult = <<>>
    /\ pthrown = <<>>
    /\ epc = "idle" /\ strategy = "none" /\ ebuffer = <<>> /\ eoptions = <<>>
    /\ tesseract \in BOOLEAN
    /\ tesseractWorker \in (IF tesseract THEN {"null", "ready"} ELSE {"null"})
    /\ parsed = <<>> /\ caught = <<>> /\ readerError = <<>> /\ cleanedTexts = <<>>
    /\ ocrCaller = "none" /\ ocrCalls = 0 /\ eresult = <<>> /\ ethrown = <<>>
    /\ CleanIdle /\ MimeIdle /\ DownloadIdle /\ OcrIdle /\ HandlerIdle /\ WorkerIdle

ProcessNext ==
    Fetch \/ Dispatch \/ PdfStart \/ PdfParsed \/ PdfCatch \/ OcrCall \/ Docx \/ Txt
        \/ DirectOcr \/ Settle

SpecProcess == ProcessInit /\ [][ProcessNext]_vars

\* ------------------------------------------------------------------------
\* Concurrent calls of extractTextWithOCR: the shared worker and the
\* temporary directories.  A call runs from one await to the next without
\* interruption; between two awaits any other call may run.
\* ------------------------------------------------------------------------
MaxCalls == 2      \* the number of concurrent calls

Calls == 1..MaxCalls
\* the names mkdtempSync can draw for 'pdf-ocr-XXXXXX'
DirNames == 1..(MaxCalls + 1)

Ended == {"returned", "thrown"}

\* faulty variant: the directory is removed at the end of the try block
\* instead of in a finally block
TempDirsAfterReturnOnly(dirs, dir, outcome) ==
    IF outcome = "returned" THEN {d \in dirs : d.name # dir[1]} ELSE dirs

\* finally: if (tempDir && fs.existsSync(tempDir)) fs.rmSync(tempDir, ..)
TempDirsAfter(dirs, dir, outcome) ==
    IF dir # <<>> /\ (\E d \in dirs : d.name = dir[1])
    THEN {d \in dirs : d.name # dir[1]}
    ELSE dirs

\* the call ends: return or throw, then the finally block
Finish(call, outcome) ==
    /\ opc' = [opc EXCEPT ![call] = outcome]
    /\ tmpdirs' = TempDirsAfter(tmpdirs, tempDir[call], outcome)

\* the catch block: OCR_FAILED
Fail(call) ==
    /\ Finish(call, "thrown")
    /\ UNCHANGED <<tempDir, tesseractWorker, engines>>

\* fs.writeFileSync(imagePath, buffer), then sharp(..).toFile(..) when sharp
\* is loaded, else tesseractWorker.recognize(..)
StartImage(call) ==
    /\ \E next \in {"preprocessing", "recognizing"} : opc' = [opc EXCEPT ![call] = next]

\* tesseractWorker.recognize(imagePath) is called in the step that takes the
\* call to "recognizing", on the worker the handle names at that moment
Recognizing(call) ==
    recognizedOn' = IF opc[call] # "recognizing" /\ opc'[call] = "recognizing"
                    THEN [recognizedOn EXCEPT ![call] = <<tesseractWorker'>>]
                    ELSE recognizedOn

\* from the call to the first await, or to the end when there is none
OcrEnter(call) ==
    /\ opc[call] = "start"
    /\ IF ~tesseract
       THEN \* throw new Error('OCR dependencies not available')
            /\ opc' = [opc EXCEPT ![call] = "thrown"]
            /\ UNCHANGED <<tempDir, tmpdirs>>
       ELSE \/ \* fs.mkdtempSync throws
               /\ Finish(call, "thrown")
               /\ UNCHANGED tempDir
            \/ \E name \in DirNames \ {d.name : d \in tmpdirs} :
                  LET made == tmpdirs \cup {[name |-> name, owner |-> call]}
                  IN  /\ tempDir' = [tempDir EXCEPT ![call] = <<name>>]
                      /\ IF ~omode[call]
                         THEN \* the placeholder text is returned at once
                              /\ opc' = [opc EXCEPT ![call] = "returned"]
                              /\ tmpdirs' = TempDirsAfter(made, <<name>>, "returned")
                         ELSE IF tesseractWorker = "null"
                         THEN \* await Tesseract.createWorker()
                              /\ opc' = [opc EXCEPT ![call] = "creating"]
                              /\ tmpdirs' = made
                         ELSE \/ StartImage(call) /\ tmpdirs' = made
                              \/ \* fs.writeFileSync throws
                                 /\ opc' = [opc EXCEPT ![call] = "thrown"]
                                 /\ tmpdirs' = TempDirsAfter(made, <<name>>, "thrown")
    /\ UNCHANGED <<omode, engines, tesseract, tesseractWorker, notOcr>>
    /\ Recognizing(call)

\* tesseractWorker = await Tesseract.createWorker()
OcrCreated(call) ==
    /\ opc[call] = "creating"
    /\ \/ /\ tesseractWorker' = "created"
          /\ engines' = engines + 1
          /\ opc' = [opc EXCEPT ![call] = "loading"]
          /\ UNCHANGED <<tempDir, tmpdirs>>
       \/ Fail(call)
    /\ UNCHANGED <<omode, tesseract, notOcr>>
    /\ Recognizing(call)

\* await tesseractWorker.loadLanguage('eng')
OcrLoaded(call) ==
    /\ opc[call] = "loading"
    /\ \/ /\ opc' = [opc EXCEPT ![call] = "initializing"]
          /\ UNCHANGED <<tempDir, tmpdirs, tesseractWorker, engines>>
       \/ Fail(call)
    /\ UNCHANGED <<omode, tesseract, notOcr>>
    /\ Recognizing(call)

\* await tesseractWorker.initialize('eng')
OcrInitialized(call) ==
    /\ opc[call] = "initializing"
    /\ \/ /\ tesseractWorker' = "ready"
          /\ StartImage(call)
          /\ UNCHANGED <<tempDir, tmpdirs, engines>>
       \/ Fail(call)
    /\ UNCHANGED <<omode, tesseract, notOcr>>
    /\ Recognizing(call)

\* await sharp(buffer)...toFile(imagePath); a rejection is caught and the
\* original image written again
OcrPreprocessed(call) ==
    /\ opc[call] = "preprocessing"
    /\ \/ /\ opc' = [opc EXCEPT ![call] = "recognizing"]
          /\ UNCHANGED <<tempDir, tmpdirs, tesseractWorker, engines>>
       \/ Fail(call)
    /\ UNCHANGED <<omode, tesseract, notOcr>>
    /\ Recognizing(call)

\* await tesseractWorker.recognize(imagePath)
OcrRecognized(call) ==
    /\ opc[call] = "recognizing"
    /\ \/ /\ Finish(call, "returned")
          /\ UNCHANGED <<tempDir, tesseractWorker, engines>>
       \/ Fail(call)
    /\ UNCHANGED <<omode, tesseract, notOcr>>
    /\ Recognizing(call)

OcrInit ==
    /\ opc = [call \in Calls |-> "start"]
    /\ omode \in [Calls -> BOOLEAN]
    /\ tempDir = [call \in Calls |-> <<>>]
    /\ tmpdirs = {}
    /\ tesseract \in BOOLEAN
    /\ tesseractWorker \in (IF tesseract THEN {"null", "ready"} ELSE {"null"})
    /\ engines = (IF tesseractWorker = "null" THEN 0 ELSE 1)
    /\ recognizedOn = [call \in Calls |-> <<>>]
    /\ epc = "idle" /\ strategy = "none" /\ ebuffer = <<>> /\ eoptions = <<>>
    /\ parsed = <<>> /\ caught = <<>> /\ readerError = <<>> /\ cleanedTexts = <<>>
    /\ ocrCaller = "none" /\ ocrCalls = 0 /\ eresult = <<>> /\ ethrown = <<>>
    /\ CleanIdle /\ MimeIdle /\ DownloadIdle /\ ProcessIdle /\ HandlerIdle /\ WorkerIdle

OcrNext ==
    \E call \in Calls :
        \/ OcrEnter(call)
        \/ OcrCreated(call)
        \/ OcrLoaded(call)
        \/ OcrInitialized(call)
        \/ OcrPreprocessed(call)
        \/ OcrRecognized(call)

SpecOcr == OcrInit /\ [][OcrNext]_vars

\* ------------------------------------------------------------------------
\* The extract request handler
\* ------------------------------------------------------------------------

ApiKey == "key"

\* an Authorization header is the sequence of its pieces between single
\* spaces, <<>> an absent header
Authorizations ==
    {<<>>, <<"Basic", "key">>, <<"Bearer", "other">>, <<"Bearer", "key">>,
     <<"Bearer", "key", "x">>}

\* authHeader.startsWith('Bearer ')
StartsWithBearer(authHeader) == Len(authHeader) >= 2 /\ authHeader[1] = "Bearer"

\* authHeader.split(' ')[1]
BearerToken(authHeader) == authHeader[2]

\* <<>> is null: no error
authenticateRequest(req) ==
    IF req.authorization = <<>> \/ ~StartsWithBearer(req.authorization)
    THEN <<[error |-> "UNAUTHORIZED",
            message |-> "Missing or invalid authorization token"]>>
    ELSE IF BearerToken(req.authorization) # ApiKey
    THEN <<[error |-> "FORBIDDEN", message |-> "Invalid API key"]>>
    ELSE <<>>

\* filename?.toLowerCase().endsWith('.pdf') || fileType?.toLowerCase() === 'pdf',
\* as a truth value; <<>> is an absent field
isPdfFile(body) ==
    \/ body.filename # <<>> /\ EndsWith(toLowerCase(body.filename), DotPdf)
    \/ body.fileType # <<>> /\ toLowerCase(body.fileType) = <<"p", "d", "f">>

\* enableOCR = true in the destructuring: the default applies to an absent field
EnableOcrOf(body) == IF body.enableOCR = <<>> THEN TRUE ELSE body.enableOCR[1]

\* the options of the first processDocument call, reduced to the flags
\* processDocument reads
FirstOptions(body) ==
    [enableOCR |-> EnableOcrOf(body), useDirectOcr |-> FALSE,
     forcePdfMode |-> isPdfFile(body), skipPdfValidation |-> isPdfFile(body)]

\* the options of the second processDocument call
RetryOptions ==
    [enableOCR |-> TRUE, useDirectOcr |-> TRUE, forcePdfMode |-> FALSE,
     skipPdfValidation |-> FALSE]

\* the strings of the model that contain 'image/'
ContainsImageSlash == ImageMimes \cup {RelatedImageType}

\* error.message.includes('image/')
MessageIncludesImage(message) ==
    \E i \in 1..Len(message) : message[i] \in ContainsImageSlash

\* faulty variant: every failure of a file declared as PDF is retried
RetriesAnyFailure(error, body) == isPdfFile(body)

\* the condition of the inner catch block
Retries(error, body) ==
    /\ "code" \in DOMAIN error
    /\ error.code = "UNSUPPORTED_FILE_TYPE"
    /\ MessageIncludesImage(error.message)
    /\ isPdfFile(body)

EmptyResponse(status) == [status |-> status, body |-> <<>>]
JsonResponse(status, json) == [status |-> status, body |-> <<json>>]

ValidationError(status, code, message) ==
    JsonResponse(status, [success |-> FALSE, error |-> code, message |-> message])

SuccessResponse(body, result) ==
    JsonResponse(200, [success |-> TRUE,
                       data |-> [documentId |-> body.documentId,
                                 extractedText |-> result.text,
                                 metadata |-> result.metadata]])

RetryNote == "File was processed with OCR as it was detected as an image"

SuccessResponseWithNote(body, result) ==
    JsonResponse(200, [success |-> TRUE,
                       data |-> [documentId |-> body.documentId,
                                 extractedText |-> result.text,
                                 metadata |-> result.metadata,
                                 note |-> RetryNote]])

\* faulty variant: the error response carries the data of a result too
ErrorResponseWithData(error) ==
    JsonResponse(IF "status" \in DOMAIN error THEN error.status ELSE 500,
                 [success |-> FALSE,
                  error |-> IF "code" \in DOMAIN error THEN error.code
                            ELSE "EXTRACTION_FAILED",
                  message |-> error.message,
                  data |-> <<>>,
                  fallbackSuggestion |-> "Try again later or contact support"])

\* the outer catch block
ErrorResponse(error) ==
    JsonResponse(IF "status" \in DOMAIN error THEN error.status ELSE 500,
                 [success |-> FALSE,
                  error |-> IF "code" \in DOMAIN error THEN error.code
                            ELSE "EXTRACTION_FAILED",
                  message |-> error.message,
                  fallbackSuggestion |-> "Try again later or contact support"])

\* req.body is undefined: the destructuring throws a TypeError
BodyTypeError == [message |-> <<"Cannot destructure property of undefined">>]

HandlerMethods == {"POST", "OPTIONS", "GET"}

HandlerFilenames == {<<>>, FileA, <<"A", ".", "P", "D", "F">>}

HandlerFileTypes == {<<>>, <<"P", "D", "F">>, <<"p", "n", "g">>}

HandlerBodies ==
    [cloudinaryUrl : {<<>>} \cup ProcessUrls, documentId : {<<>>, <<"d", "1">>},
     filename : HandlerFilenames, fileType : HandlerFileTypes,
     enableOCR : {<<>>, <<TRUE>>, <<FALSE>>}]

\* the log of calls, with the error of the last call recorded
Failed(calls, error) == [calls EXCEPT ![Len(calls)].failure = <<error>>]

Respond(response) ==
    /\ hresponses' = Append(hresponses, response)
    /\ hpc' = "done"

\* await processDocument(url, options): a fresh call, on the module state
\* the earlier calls left
CallProcessDocument(url, options) ==
    /\ hcalls' = Append(IF ppc = "thrown" THEN Failed(hcalls, pthrown[1]) ELSE hcalls,
                        [options |-> options, failure |-> <<>>])
    /\ ppc' = "start"
    /\ fileUrl' = url
    /\ poptions' = options
    /\ fileData' = <<>> /\ presult' = <<>> /\ pthrown' = <<>>
    /\ epc' = "idle" /\ strategy' = "none" /\ ebuffer' = <<>> /\ eoptions' = <<>>
    /\ parsed' = <<>> /\ caught' = <<>> /\ readerError' = <<>> /\ cleanedTexts' = <<>>
    /\ ocrCaller' = "none" /\ ocrCalls' = 0 /\ eresult' = <<>> /\ ethrown' = <<>>
    /\ UNCHANGED <<tesseract, tesseractWorker>>

\* the handler from its entry to its first response or its first await
Receive ==
    /\ hpc = "start"
    /\ IF hrequest.method = "OPTIONS"
       THEN Respond(EmptyResponse(200)) /\ UNCHANGED <<hcalls, procVars, exVars>>
       ELSE IF hrequest.method # "POST"
       THEN /\ Respond(ValidationError(405, "METHOD_NOT_ALLOWED",
                                       "Only POST requests are allowed"))
            /\ UNCHANGED <<hcalls, procVars, exVars>>
       ELSE IF authenticateRequest(hrequest) # <<>>
       THEN LET authError == authenticateRequest(hrequest)[1]
            IN  /\ Respond(ValidationError(
                       IF authError.error = "UNAUTHORIZED" THEN 401 ELSE 403,
                       authError.error, authError.message))
                /\ UNCHANGED <<hcalls, procVars, exVars>>
       ELSE IF hrequest.body = <<>>
       THEN Respond(ErrorResponse(BodyTypeError)) /\ UNCHANGED <<hcalls, procVars, exVars>>
       ELSE IF hrequest.body[1].cloudinaryUrl = <<>>
       THEN /\ Respond(ValidationError(400, "MISSING_URL", "Document URL is required"))
            /\ UNCHANGED <<hcalls, procVars, exVars>>
       ELSE IF hrequest.body[1].documentId = <<>>
       THEN /\ Respond(ValidationError(400, "MISSING_DOCUMENT_ID",
                                       "Document ID is required"))
            /\ UNCHANGED <<hcalls, procVars, exVars>>
       ELSE /\ CallProcessDocument(hrequest.body[1].cloudinaryUrl,
                                   FirstOptions(hrequest.body[1]))
            /\ hpc' = "first"
            /\ UNCHANGED hresponses
    /\ UNCHANGED <<hrequest, notHandler>>

\* the first processDocument call settles: the success response, the second
\* call, or the error response
FirstSettled ==
    /\ hpc = "first"
    /\ ppc \in {"returned", "thrown"}
    /\ IF ppc = "returned"
       THEN /\ Respond(SuccessResponse(hrequest.body[1], presult[1]))
            /\ UNCHANGED <<hcalls, procVars, exVars>>
       ELSE IF Retries(pthrown[1], hrequest.body[1])
       THEN /\ CallProcessDocument(hrequest.body[1].cloudinaryUrl, RetryOptions)
            /\ hpc' = "retry"
            /\ UNCHANGED hresponses
       ELSE /\ Respond(ErrorResponse(pthrown[1]))
            /\ hcalls' = Failed(hcalls, pthrown[1])
            /\ UNCHANGED <<procVars, exVars>>
    /\ UNCHANGED <<hrequest, notHandler>>

\* the second processDocument call settles: its result with the note, or its
\* error through the outer catch block
RetrySettled ==
    /\ hpc = "retry"
    /\ ppc \in {"returned", "thrown"}
    /\ IF ppc = "returned"
       THEN /\ Respond(SuccessResponseWithNote(hrequest.body[1], presult[1]))
            /\ UNCHANGED hcalls
       ELSE /\ Respond(ErrorResponse(pthrown[1]))
            /\ hcalls' = Failed(hcalls, pthrown[1])
    /\ UNCHANGED <<hrequest, procVars, exVars, notHandler>>

HandlerInit ==
    /\ hpc = "start"
    /\ hrequest \in [method : HandlerMethods, authorization : Authorizations,
                     body : {<<>>} \cup {<<b>> : b \in HandlerBodies}]
    /\ hcalls = <<>>
    /\ hresponses = <<>>
    /\ ppc = "idle" /\ fileUrl = <<>> /\ poptions = <<>> /\ fileData = <<>>
    /\ presult = <<>> /\ pthrown = <<>>
    /\ epc = "idle" /\ strategy = "none" /\ ebuffer = <<>> /\ eoptions = <<>>
    /\ tesseract \in BOOLEAN
    /\ tesseractWorker \in (IF tesseract THEN {"null", "ready"} ELSE {"null"})
    /\ parsed = <<>> /\ caught = <<>> /\ readerError = <<>> /\ cleanedTexts = <<>>
    /\ ocrCaller = "none" /\ ocrCalls = 0 /\ eresult = <<>> /\ ethrown = <<>>
    /\ CleanIdle /\ MimeIdle /\ DownloadIdle /\ OcrIdle /\ WorkerIdle

HandlerNext ==
    Receive \/ FirstSettled \/ RetrySettled \/ Fetch \/ Dispatch \/ PdfStart \/ PdfParsed
        \/ PdfCatch \/ OcrCall \/ Docx \/ Txt \/ DirectOcr \/ Settle

SpecHandler == HandlerInit /\ [][HandlerNext]_vars

\* ------------------------------------------------------------------------
\* The earlier pdfProcessor: the worker that processDocument creates on the
\* first OCR call and terminates in its finally block, over calls made one
\* after the other
\* ------------------------------------------------------------------------

WorkerOptions == [cleanupWorkers : BOOLEAN, enableOCR : BOOLEAN]

NoLocal ==
    [phase |-> "none", foundNull |-> FALSE, engine |-> 0, created |-> {}, seen |-> -1,
     terminated |-> 0, tryOutcome |-> "none", outcome |-> "none"]

\* faulty variant: the finally block does not test the handle
CleansWithoutHandleTest(handle, options) == options.cleanupWorkers

\* if (tesseractWorker && options.cleanupWorkers)
Cleans(handle, options) == handle # 0 /\ options.cleanupWorkers

\* faulty variant: the handle is kept after terminate()
HandleKept(handle) == handle

\* tesseractWorker = null
HandleCleared(handle) == 0

\* the try and catch blocks are over: the finally block is next
WEnd(c, tryOutcome) ==
    /\ wlocal' = [wlocal EXCEPT ![c].tryOutcome = tryOutcome]
    /\ wpc' = [wpc EXCEPT ![c] = "finally"]

\* extractTextWithOCR throws OCR_FAILED: thrown inside the try block of
\* extractTextFromPDF it is caught there and OCR is called again, thrown from
\* its catch block it leaves processDocument's try block
WOcrFails(c) ==
    IF wlocal[c].phase = "try"
    THEN /\ wlocal' = [wlocal EXCEPT ![c].phase = "catch", ![c].foundNull = FALSE,
                                     ![c].engine = 0]
         /\ wpc' = [wpc EXCEPT ![c] = "ocr"]
    ELSE WEnd(c, "thrown")

\* from the call to the first OCR call, or to the end of the try block
\* without OCR
WStart(c) ==
    /\ wpc[c] = "start"
    /\ \A d \in Calls : d < c => wpc[d] = "done"   \* one call after the other
    /\ \/ \E tryOutcome \in {"returned", "thrown"} : WEnd(c, tryOutcome)
       \/ /\ woptions[c].enableOCR
          /\ \E phase \in {"try", "catch"} :
                 wlocal' = [wlocal EXCEPT ![c].phase = phase]
          /\ wpc' = [wpc EXCEPT ![c] = "ocr"]
    /\ UNCHANGED <<woptions, workerHandle, workers, notWorker>>

\* convertPDFToImages settles; if (!tesseractWorker) ... createWorker, or
\* recognize on the worker of the handle
WConverted(c) ==
    /\ wpc[c] = "ocr"
    /\ \/ WOcrFails(c)
       \/ IF workerHandle = 0
          THEN /\ wlocal' = [wlocal EXCEPT ![c].foundNull = TRUE]
               /\ wpc' = [wpc EXCEPT ![c] = "creating"]
          ELSE /\ wlocal' = [wlocal EXCEPT ![c].engine = workerHandle]
               /\ wpc' = [wpc EXCEPT ![c] = "recognizing"]
    /\ UNCHANGED <<woptions, workerHandle, workers, notWorker>>

\* Tesseract.createWorker settles
WCreated(c) ==
    /\ wpc[c] = "creating"
    /\ \/ /\ WOcrFails(c)
          /\ UNCHANGED <<workerHandle, workers>>
       \/ LET k == Len(workers) + 1
          IN  /\ workers' = Append(workers, "running")
              /\ workerHandle' = k
              /\ wlocal' = [wlocal EXCEPT ![c].engine = k,
                                          ![c].created = wlocal[c].created \cup {k}]
              /\ wpc' = [wpc EXCEPT ![c] = "recognizing"]
    /\ UNCHANGED <<woptions, notWorker>>

\* tesseractWorker.recognize settles; a terminated worker recognizes nothing
WRecognized(c) ==
    /\ wpc[c] = "recognizing"
    /\ \/ WOcrFails(c)
       \/ /\ workers[wlocal[c].engine] = "running"
          /\ WEnd(c, "returned")
    /\ UNCHANGED <<woptions, workerHandle, workers, notWorker>>

\* the finally block up to the await of terminate(), or to its end
WFinally(c) ==
    /\ wpc[c] = "finally"
    /\ IF Cleans(workerHandle, woptions[c])
       THEN IF workerHandle = 0
            THEN \* null.terminate(): a TypeError replaces the outcome
                 /\ wlocal' = [wlocal EXCEPT ![c].seen = workerHandle,
                                             ![c].outcome = "TypeError"]
                 /\ wpc' = [wpc EXCEPT ![c] = "done"]
                 /\ UNCHANGED workers
            ELSE /\ workers' = [workers EXCEPT ![workerHandle] = "terminated"]
                 /\ wlocal' = [wlocal EXCEPT ![c].seen = workerHandle,
                                             ![c].terminated = workerHandle]
                 /\ wpc' = [wpc EXCEPT ![c] = "terminating"]
       ELSE /\ wlocal' = [wlocal EXCEPT ![c].seen = workerHandle,
                                        ![c].outcome = wlocal[c].tryOutcome]
            /\ wpc' = [wpc EXCEPT ![c] = "done"]
            /\ UNCHANGED workers
    /\ UNCHANGED <<woptions, workerHandle, notWorker>>

\* terminate() has resolved: the handle is cleared and the call ends
WTerminated(c) ==
    /\ wpc[c] = "terminating"
    /\ workerHandle' = HandleCleared(workerHandle)
    /\ wlocal' = [wlocal EXCEPT ![c].outcome = wlocal[c].tryOutcome]
    /\ wpc' = [wpc EXCEPT ![c] = "done"]
    /\ UNCHANGED <<woptions, workers, notWorker>>

WorkerInit ==
    /\ wpc = [c \in Calls |-> "start"]
    /\ woptions \in [Calls -> WorkerOptions]
    /\ wlocal = [c \in Calls |-> NoLocal]
    /\ workerHandle = 0
    /\ workers = <<>>
    /\ CleanIdle /\ MimeIdle /\ DownloadIdle /\ ExtractIdle /\ ProcessIdle /\ OcrIdle
    /\ HandlerIdle

WorkerNext ==
    \E c \in Calls :
        WStart(c) \/ WConverted(c) \/ WCreated(c) \/ WRecognized(c) \/ WFinally(c)
            \/ WTerminated(c)

SpecWorker == WorkerInit /\ [][WorkerNext]_vars

\* ------------------------------------------------------------------------
\* Properties of the extraction strategies
\* ------------------------------------------------------------------------

\* the number of words of a text: its maximal runs of non-whitespace characters
RECURSIVE DropWord(_)
DropWord(text) ==
    IF text = <<>> \/ IsWs(text[1]) THEN text ELSE DropWord(Tail(text))

RECURSIVE NumberOfWords(_)
NumberOfWords(text) ==
    IF text = <<>> THEN 0
    ELSE IF IsWs(text[1]) THEN NumberOfWords(Tail(text))
    ELSE 1 + NumberOfWords(DropWord(text))

SparseNativeRead ==
    /\ strategy = "pdf"
    /\ parsed # <<>>
    /\ NumberOfWords(parsed[1].text) < 10

\* C6: a native read of fewer than 10 words with enableOCR set and the OCR
\* engine available gives the caller a result whose extractionMethod is "ocr".
SparseTextWithOcrIsOcr ==
    (SparseNativeRead /\ eoptions.enableOCR /\ tesseract) =>
        /\ epc \in {"done", "failed"} => ocrCalls >= 1
        /\ eresult # <<>> => eresult[1].metadata.extractionMethod = "ocr"

\* a text layer of three words was read and OCR delivered the result
SparseTextWithOcrWitness ==
    /\ SparseNativeRead /\ eoptions.enableOCR /\ tesseract
    /\ NumberOfWords(parsed[1].text) = 3
    /\ epc = "done"
    /\ eresult # <<>>
    /\ eresult[1].metadata.extractionMethod = "ocr"

\* C7: a native read of fewer than 10 words with enableOCR not set succeeds
\* without OCR being invoked and returns the cleaned native text with
\* extractionMethod "text".
SparseTextWithoutOcrIsText ==
    (SparseNativeRead /\ ~eoptions.enableOCR) =>
        /\ ocrCalls = 0
        /\ epc \in {"pdf_parsed", "done"}
        /\ ethrown = <<>>
        /\ epc = "done" =>
              /\ eresult # <<>>
              /\ eresult[1].metadata.extractionMethod = "text"
              /\ eresult[1].text \in CleanTextOutcomes(parsed[1].text)

\* a text layer of three words was returned as it is, the engine being there
SparseTextWithoutOcrWitness ==
    /\ SparseNativeRead /\ ~eoptions.enableOCR /\ tesseract
    /\ NumberOfWords(parsed[1].text) = 3
    /\ epc = "done"
    /\ eresult # <<>>
    /\ eresult[1].text = parsed[1].text

\* C8: in every result, metadata.wordCount is the number of words of the
\* returned text, 0 for an empty text.
WordCountMatchesText ==
    eresult # <<>> => eresult[1].metadata.wordCount = NumberOfWords(eresult[1].text)

\* ------------------------------------------------------------------------
\* Properties of downloadFile
\* ------------------------------------------------------------------------
Unsuccessful(o) == o.result \in {"failed", "skipped"}

\* C1: a 4xx answer to the direct GET does not make downloadFile throw: the
\* resource-type-corrected GET is next, and the call fails only once every
\* remaining strategy has failed or been skipped.
ClientErrorProceeds ==
    (Len(outcomes) >= 1 /\ outcomes[1].status \in 400..499) =>
        /\ Len(outcomes) = 1 => (dpc = "m2" /\ thrown = <<>>)
        /\ Len(outcomes) >= 2 => outcomes[2].method = 2
        /\ (dpc = "thrown" \/ thrown # <<>>) =>
              (Len(outcomes) = 4 /\ \A i \in 1..4 : Unsuccessful(outcomes[i]))

\* the direct GET got a 404 and the reconstructed URL then delivered
ClientErrorWitness ==
    /\ Len(outcomes) = 2
    /\ outcomes[1].status = 404
    /\ outcomes[2].result = "ok"
    /\ requests[2].method = 2
    /\ dpc = "returned"

\* C2: the strategies are tried in the order 1, 2, 3, 4; the first success
\* determines what is returned and ends the call; a failure of one strategy
\* only moves on to the next.
StrategiesInOrder ==
    /\ \A i \in 1..Len(outcomes) : outcomes[i].method = i
    /\ \A i \in 1..Len(requests) : \A j \in 1..Len(requests) :
           i < j => requests[i].method < requests[j].method
    /\ \A i \in 1..Len(outcomes) :
           IF outcomes[i].result = "ok"
           THEN /\ i = Len(outcomes)
                /\ dpc = "returned"
                /\ Len(returned) = 1
                /\ returned[1].buffer = outcomes[i].data
                /\ returned[1].zeros = outcomes[i].zeros
                /\ returned[1].size = Len(outcomes[i].data) + outcomes[i].zeros
                /\ returned[1].url = requests[Len(requests)].url
                /\ requests[Len(requests)].method = i
           ELSE i = Len(outcomes) =>
                    dpc = (CASE i = 1 -> "m2" [] i = 2 -> "m3" [] i = 3 -> "m4"
                             [] OTHER -> "thrown")
    /\ dpc = "returned" =>
           (outcomes # <<>> /\ outcomes[Len(outcomes)].result = "ok" /\ thrown = <<>>)
    /\ dpc # "returned" => returned = <<>>

\* the first two strategies failed with a request each and the third delivered
StrategiesInOrderWitness ==
    /\ Len(outcomes) = 3
    /\ outcomes[1].result = "failed"
    /\ outcomes[2].result = "failed"
    /\ outcomes[3].result = "ok"
    /\ Len(requests) = 3
    /\ dpc = "returned"

\* C3: downloadFile fails exactly when no strategy succeeded, and what it
\* throws then has code DOWNLOAD_FAILED, a message, status 500 and the URL it
\* was called with as originalUrl.
DownloadFailedShape ==
    /\ (dpc = "thrown") <=> (Len(outcomes) = 4 /\ \A i \in 1..4 : Unsuccessful(outcomes[i]))
    /\ (thrown # <<>>) <=> (dpc = "thrown")
    /\ thrown # <<>> =>
           /\ Len(thrown) = 1
           /\ DOMAIN thrown[1] = {"code", "message", "status", "originalUrl"}
           /\ thrown[1].code = "DOWNLOAD_FAILED"
           /\ thrown[1].message # ""
           /\ thrown[1].status = 500
           /\ thrown[1].originalUrl = durl

\* all four strategies sent their request and all four failed
DownloadFailedWitness ==
    /\ dpc = "thrown"
    /\ Len(requests) = 4
    /\ thrown # <<>>

\* ------------------------------------------------------------------------
\* Properties of processDocument
\* ------------------------------------------------------------------------

\* the call has ended after handing the downloaded bytes to a strategy
Dispatched == ppc \in {"returned", "thrown"} /\ strategy # "none"

\* C12: a download of 0 bytes never yields a result: the strategy
\* processDocument dispatches to fails, and the failure carries code and status.
EmptyBufferFailsTyped ==
    (Dispatched /\ fileData[1].buffer = <<>>) =>
        /\ presult = <<>>
        /\ pthrown # <<>> /\ IsTyped(pthrown[1])

\* C13: every failure of processDocument carries code and status: a typed
\* error of the download or of a strategy is rethrown unchanged, any other
\* exception becomes PROCESSING_FAILED with status 500 and the original message.
ProcessFailuresTyped ==
    /\ (ppc = "thrown") = (pthrown # <<>>)
    /\ ppc = "thrown" =>
         /\ IsTyped(pthrown[1])
         /\ fileData = <<>> => pthrown[1] = DownloadFailed(fileUrl)
         /\ epc = "failed" =>
              IF IsTyped(ethrown[1])
              THEN pthrown[1] = ethrown[1]
              ELSE /\ pthrown[1].code = "PROCESSING_FAILED"
                   /\ pthrown[1].status = 500
                   /\ pthrown[1].originalError = ethrown[1].message

\* a strategy threw an error without code and status, and processDocument
\* replaced it
ProcessFailuresWitness ==
    /\ ppc = "thrown"
    /\ epc = "failed"
    /\ ~IsTyped(ethrown[1])
    /\ pthrown[1].code = "PROCESSING_FAILED"

\* C14: when processDocument calls the OCR strategy itself and the engine
\* is unavailable or recognition fails, the error of the strategy, and the
\* error processDocument throws, have code OCR_FAILED.
DirectOcrFailureIsOcrFailed ==
    /\ (strategy = "ocr" /\ epc = "failed") =>
           IsTyped(ethrown[1]) /\ ethrown[1].code = "OCR_FAILED"
    /\ (strategy = "ocr" /\ ppc = "thrown") => pthrown[1].code = "OCR_FAILED"

\* C15: a download that resolves to application/msword ends in
\* UNSUPPORTED_FILE_TYPE with status 400, and no strategy has been called,
\* whatever the options.
LegacyDocUnsupported ==
    (fileData # <<>> /\ fileData[1].mimeType = DocMime /\ ppc # "fetched") =>
        /\ ppc = "thrown"
        /\ pthrown[1].code = "UNSUPPORTED_FILE_TYPE"
        /\ pthrown[1].status = 400
        /\ strategy = "none" /\ epc = "idle" /\ ocrCalls = 0

\* a legacy DOC download refused although every flag that reroutes a
\* download is set
LegacyDocWitness ==
    /\ ppc = "thrown"
    /\ fileData # <<>> /\ fileData[1].mimeType = DocMime
    /\ poptions.useDirectOcr /\ poptions.forcePdfMode /\ poptions.skipPdfValidation
    /\ poptions.enableOCR

\* the download resolved to an image type and the call was made with
\* forcePdfMode and skipPdfValidation
ForcedImage ==
    /\ ppc \in {"extracting", "returned", "thrown"}
    /\ fileData # <<>>
    /\ IsImage(fileData[1].mimeType)
    /\ poptions.forcePdfMode /\ poptions.skipPdfValidation

\* the OCR strategy was called by processDocument itself, the native PDF
\* strategy was not, and a result says "ocr"
OcrCalledDirectly ==
    /\ strategy = "ocr"
    /\ parsed = <<>> /\ caught = <<>> /\ ocrCaller \in {"none", "direct"}
    /\ ppc = "returned" => presult[1].metadata.extractionMethod = "ocr"

\* C16: an image download with forcePdfMode and skipPdfValidation goes
\* straight to the OCR strategy in isPngAsPdf mode, not to the native PDF
\* strategy, and a result has extractionMethod "ocr".
ForcedImageIsPngAsPdf ==
    ForcedImage => (OcrCalledDirectly /\ eoptions.isPngAsPdf)

\* C16, amended: ... in isPngAsPdf mode unless useDirectOcr is set as well,
\* in which case the OCR strategy is called in directImageOcr mode.
ForcedImageGoesToOcr ==
    ForcedImage =>
        /\ OcrCalledDirectly
        /\ eoptions.isPngAsPdf = ~poptions.useDirectOcr
        /\ eoptions.directImageOcr = poptions.useDirectOcr

\* a PNG download with both flags set, read by OCR in isPngAsPdf mode
ForcedImageWitness ==
    /\ ForcedImage
    /\ ppc = "returned"
    /\ fileData[1].buffer = PngSignature
    /\ eoptions.isPngAsPdf
    /\ ocrCalls = 1
    /\ presult[1].metadata.extractionMethod = "ocr"

\* ------------------------------------------------------------------------
\* Properties of concurrent OCR calls
\* ------------------------------------------------------------------------

\* C17: the lazy creation of the shared worker is serialized: however the
\* calls interleave, at most one worker is ever created.
SingleEngine == engines <= 1

InProgress(call) == opc[call] \notin ({"start"} \cup Ended)

\* an ended call has left no directory behind
ScratchRemoved ==
    \A call \in DOMAIN opc :
        opc[call] \in Ended => ~(\E d \in tmpdirs : d.owner = call)

\* every directory in place is the directory of the running call that made
\* it, and of no other call
ScratchPrivate ==
    /\ \A d \in tmpdirs : InProgress(d.owner) /\ tempDir[d.owner] = <<d.name>>
    /\ \A c1, c2 \in DOMAIN opc :
           (c1 # c2 /\ InProgress(c1) /\ InProgress(c2)) => tempDir[c1] # tempDir[c2]

\* the directory of a running call is in place: no other call has removed it
ScratchInPlace ==
    \A call \in DOMAIN opc :
        InProgress(call) => [name |-> tempDir[call][1], owner |-> call] \in tmpdirs

\* C18: the temporary directory of an OCR call is private to the call and is
\* gone when the call has ended, however it ended; no call removes the
\* directory of another.
ScratchScoped == ScratchRemoved /\ ScratchPrivate /\ ScratchInPlace

\* one call has failed after making its directory while the other is still
\* at work in its own
ScratchScopedWitness ==
    /\ opc[1] = "thrown" /\ tempDir[1] # <<>>
    /\ opc[2] = "recognizing"
    /\ tmpdirs = {[name |-> tempDir[2][1], owner |-> 2]}

\* ------------------------------------------------------------------------
\* Properties of the size of a download
\* ------------------------------------------------------------------------

\* C19: what downloadFile returns has size equal to the length of its
\* buffer and at most 50 MiB: a longer response is rejected, never returned.
DownloadWithinLimit ==
    returned # <<>> =>
        /\ returned[1].size = Len(returned[1].buffer) + returned[1].zeros
        /\ returned[1].size <= MaxContentLength

\* ------------------------------------------------------------------------
\* Properties of the failure handling of extractTextFromPDF
\* ------------------------------------------------------------------------

PdfCallEnded == strategy = "pdf" /\ epc \in {"done", "failed"}

FailedWithPdfExtractionFailed ==
    epc = "failed" /\ ethrown[1].code = "PDF_EXTRACTION_FAILED"

\* C20: when pdfParse fails and enableOCR is set with the engine loaded, the
\* OCR strategy is called; when OCR is disabled or unavailable, when the
\* bytes are no PDF, or when OCR fails as well, the call fails with
\* PDF_EXTRACTION_FAILED, also under skipSignatureCheck.
NativeFailureHandled ==
    /\ (PdfCallEnded /\ readerError # <<>>) =>
          IF eoptions.enableOCR /\ tesseract
          THEN /\ ocrCalls >= 1
               /\ epc = "done" => eresult[1].metadata.extractionMethod = "ocr"
               /\ epc = "failed" => FailedWithPdfExtractionFailed
          ELSE ocrCalls = 0 /\ FailedWithPdfExtractionFailed
    /\ (PdfCallEnded /\ caught # <<>> /\ caught[1].message = NotPdfMessage) =>
          ocrCalls = 0 /\ FailedWithPdfExtractionFailed

\* the first processDocument call failed with UNSUPPORTED_FILE_TYPE, its
\* message names an image type, and the request declares a PDF
FirstFailedOnImage ==
    /\ hcalls # <<>>
    /\ hcalls[1].failure # <<>>
    /\ hcalls[1].failure[1].code = "UNSUPPORTED_FILE_TYPE"
    /\ \E i \in 1..Len(hcalls[1].failure[1].message) :
           hcalls[1].failure[1].message[i] \in ContainsImageSlash
    /\ isPdfFile(hrequest.body[1])

CaughtByHandler ==
    IF hcalls # <<>> /\ hcalls[Len(hcalls)].failure # <<>>
    THEN hcalls[Len(hcalls)].failure
    ELSE IF hcalls = <<>> /\ hrequest.method = "POST"
            /\ authenticateRequest(hrequest) = <<>> /\ hrequest.body = <<>>
    THEN <<BodyTypeError>>
    ELSE <<>>

SuccessEnvelope(response) ==
    /\ response.status = 200
    /\ response.body # <<>>
    /\ response.body[1].success = TRUE
    /\ DOMAIN response.body[1] = {"success", "data"}
    /\ {"documentId", "extractedText", "metadata"} \subseteq DOMAIN response.body[1].data
    /\ response.body[1].data.extractedText = presult[1].text
    /\ response.body[1].data.metadata = presult[1].metadata

ErrorEnvelope(response) ==
    /\ response.body # <<>>
    /\ response.body[1].success = FALSE
    /\ {"error", "message"} \subseteq DOMAIN response.body[1]
    /\ "data" \notin DOMAIN response.body[1]
    /\ "extractedText" \notin DOMAIN response.body[1]
    /\ response.status >= 400
    /\ CaughtByHandler # <<>> =>
           /\ response.status = (IF "status" \in DOMAIN CaughtByHandler[1]
                                 THEN CaughtByHandler[1].status ELSE 500)
           /\ response.body[1].error = (IF "code" \in DOMAIN CaughtByHandler[1]
                                        THEN CaughtByHandler[1].code
                                        ELSE "EXTRACTION_FAILED")
           /\ response.body[1].message = CaughtByHandler[1].message

\* C22: a request other than the OPTIONS preflight gets one response and no
\* more, sent when the handler ends; it is the success envelope with the text
\* and the metadata of the processDocument result exactly when the last
\* processDocument call returned, and otherwise the error envelope with a
\* code, a message, the status of the error (500 when it has none) and no
\* data
OneResponseAllOrNothing ==
    /\ Len(hresponses) <= 1
    /\ (hpc = "done") = (Len(hresponses) = 1)
    /\ (hpc = "done" /\ hrequest.method # "OPTIONS") =>
           IF hcalls # <<>> /\ ppc = "returned"
           THEN SuccessEnvelope(hresponses[1])
           ELSE ErrorEnvelope(hresponses[1])

OneResponseWitness ==
    /\ hpc = "done"
    /\ Len(hcalls) = 1
    /\ hcalls[1].failure # <<>>
    /\ hcalls[1].failure[1].code = "PDF_EXTRACTION_FAILED"
    /\ hresponses[1].body[1].error = "PDF_EXTRACTION_FAILED"

\* a request without a body ends in the 500 response with the default code
DefaultStatusWitness ==
    /\ hpc = "done"
    /\ CaughtByHandler = <<BodyTypeError>>
    /\ hresponses[1].status = 500

CleanupWithoutWorkerWitness ==
    \E c \in Calls :
        /\ wpc[c] = "done" /\ woptions[c].cleanupWorkers /\ wlocal[c].seen = 0
        /\ wlocal[c].outcome = "returned"

\* an environment with nothing configured, and one with the API key and
\* secret taken out
NothingConfigured == [cloudName |-> <<>>, apiKey |-> Null, apiSecret |-> Null]
WithoutKeys(env) == [env EXCEPT !.apiKey = Null, !.apiSecret = Null]

\* what strategies 1 to 3 have done so far is what they do under env: the
\* same strategies skipped, the same URLs requested
FirstThreeAsUnder(env) ==
    /\ \A i \in 1..Len(outcomes) :
           outcomes[i].method \in {2, 3} =>
               ((outcomes[i].result = "skipped") = ~IsProviderUrl(durl, env))
    /\ \A i \in 1..Len(requests) :
           /\ requests[i].method = 1 => requests[i].url = durl
           /\ requests[i].method = 2 => requests[i].url = ReconstructedUrl(durl, env)
           /\ requests[i].method = 3 => requests[i].url = AttachmentUrl(durl, env)

\* strategy 4 has been passed without a request and without an error of its
\* own: the call goes on to the DOWNLOAD_FAILED of the exhausted list
FourthSkipped ==
    /\ \A i \in 1..Len(requests) : requests[i].method # 4
    /\ \A i \in 1..Len(outcomes) :
           outcomes[i].method = 4 => outcomes[i].result = "skipped"
    /\ thrown # <<>> => thrown[1] = DownloadFailed(durl)

StartsWithZipHeader(buffer) == Len(buffer) >= 4 /\ SubSeq(buffer, 1, 4) = ZipSignature

\* the bytes of the buffer hold 'word/', '_rels' or 'docProps'; no buffer of
\* the model holds 'docProps'
ContainsWordMarker(buffer) ==
    \E i \in 1..Len(buffer) :
        \/ /\ i + Len(WordMarker) - 1 <= Len(buffer)
           /\ SubSeq(buffer, i, i + Len(WordMarker) - 1) = WordMarker
        \/ /\ i + Len(RelsMarker) - 1 <= Len(buffer)
           /\ SubSeq(buffer, i, i + Len(RelsMarker) - 1) = RelsMarker

\* C25: detectMimeTypeFromContent goes through its table in order: a buffer
\* with the zip header is DOCX when its bytes hold a word marker and
\* application/zip when they hold none, and a buffer with no signature
\* yields null
ZipClassifiedByMarker ==
    mpc = "done" =>
        LET sniffed == detectMimeTypeFromContent(mbuffer)
        IN  /\ (StartsWithZipHeader(mbuffer) /\ ContainsWordMarker(mbuffer))
                   => sniffed = DocxMime
            /\ (StartsWithZipHeader(mbuffer) /\ ~ContainsWordMarker(mbuffer))
                   => sniffed = ZipMime
            /\ (\A sig \in Signatures :
                    Len(mbuffer) < Len(sig) \/ SubSeq(mbuffer, 1, Len(sig)) # sig)
                   => sniffed = Null

\* the same without the marker part: the zip header gives DOCX or zip
ZipHeaderIsDocxOrZip ==
    (mpc = "done" /\ StartsWithZipHeader(mbuffer)) =>
        detectMimeTypeFromContent(mbuffer) \in {DocxMime, ZipMime}

\* the ranges and the fixed confidences of the metadata; confidences are
\* written in hundredths
MetadataInRange(metadata) ==
    /\ metadata.totalPages >= 1
    /\ metadata.wordCount >= 0
    /\ metadata.extractionMethod \in {"text", "ocr", "docx", "txt"}
    /\ metadata.confidence >= 0 /\ metadata.confidence <= 100
    /\ metadata.extractionMethod = "text" => metadata.confidence = 95
    /\ metadata.extractionMethod = "docx" => metadata.confidence = 98
    /\ metadata.extractionMethod = "txt" => metadata.confidence = 100

\* the engine has recognized an image in this call: extractTextWithOCR calls
\* recognize only under one of the two flags
EngineRecognized == eoptions.isPngAsPdf \/ eoptions.directImageOcr

\* the part of C26 that does not concern the source of the OCR confidence
ResultMetadataInRange ==
    ppc = "returned" => MetadataInRange(presult[1].metadata)

\* C26: a result of processDocument has totalPages >= 1, wordCount >= 0, a
\* method among text, ocr, docx, txt and a confidence within [0, 1]: 0.95
\* for text, 0.98 for docx, 1.0 for txt, and for ocr the confidence the
\* engine reported for this call, divided by 100
ResultMetadataContract ==
    ppc = "returned" =>
        /\ MetadataInRange(presult[1].metadata)
        /\ presult[1].metadata.extractionMethod = "ocr" => EngineRecognized

\* C27: a processDocument call that went to the DOCX strategy never calls
\* OCR; when it returns, the result has one page, confidence 0.98 and method
\* "docx"; when it throws, the error is DOCX_EXTRACTION_FAILED
DocxResultAndFailure ==
    (strategy = "docx" /\ ppc \in {"returned", "thrown"}) =>
        /\ ocrCalls = 0
        /\ ppc = "returned" =>
               /\ presult[1].metadata.totalPages = 1
               /\ presult[1].metadata.confidence = 98
               /\ presult[1].metadata.extractionMethod = "docx"
        /\ ppc = "thrown" =>
               /\ pthrown[1].code = "DOCX_EXTRACTION_FAILED"
               /\ pthrown[1].status = 500

\* the reader failed with OCR enabled and the engine loaded
DocxFailureWitness ==
    /\ strategy = "docx" /\ ppc = "thrown"
    /\ poptions.enableOCR /\ tesseract
    /\ pthrown[1].code = "DOCX_EXTRACTION_FAILED"

\* the download resolved to a type that has no strategy
NoStrategyType ==
    /\ ppc \in {"returned", "thrown"}
    /\ fileData # <<>>
    /\ fileData[1].mimeType \notin {PdfMime, DocxMime, DocMime, TxtMime}

\* a flag sends the downloaded image to OCR
RedirectedToOcr ==
    /\ IsImage(fileData[1].mimeType)
    /\ poptions.useDirectOcr \/ (poptions.forcePdfMode /\ poptions.skipPdfValidation)

\* forcePdfMode alone relabels the downloaded image as a PDF
RelabelledAsPdf == IsImage(fileData[1].mimeType) /\ poptions.forcePdfMode

RefusedUnsupported ==
    /\ ppc = "thrown"
    /\ pthrown[1].code = "UNSUPPORTED_FILE_TYPE"
    /\ pthrown[1].status = 400
    /\ strategy = "none"
    /\ ocrCalls = 0

RejectedBeforeReader ==
    /\ parsed = <<>> /\ readerError = <<>>
    /\ ocrCalls = 0 /\ epc # "ocr"
    /\ epc \in {"done", "failed"} =>
           /\ eresult = <<>>
           /\ ethrown # <<>>
           /\ ethrown[1].code = "PDF_EXTRACTION_FAILED"

\* with skipSignatureCheck the buffer is never turned down for its signature
SignatureNotExamined ==
    (strategy = "pdf" /\ epc # "start" /\ eoptions.skipSignatureCheck) =>
        (caught = <<>> \/ caught[1].message # NotPdfMessage)

\* C29: without skipSignatureCheck a buffer that does not begin with the
\* bytes %PDF is turned down before the reader is called, OCR is never called
\* for it and the call fails with PDF_EXTRACTION_FAILED; with
\* skipSignatureCheck the signature is not examined
NonPdfRejected ==
    /\ (strategy = "pdf" /\ epc # "start" /\ ~eoptions.skipSignatureCheck
            /\ ~StartsWithPdfBytes(ebuffer)) => RejectedBeforeReader
    /\ SignatureNotExamined

\* the same for buffers of four bytes and more whose first four bytes,
\* with the high bit cleared, are not %PDF
NonPdfRejectedAfterDecoding ==
    /\ (strategy = "pdf" /\ epc # "start" /\ ~eoptions.skipSignatureCheck
            /\ Len(ebuffer) >= 4 /\ ToAscii(Slice(ebuffer, 4)) # PdfSignature)
           => RejectedBeforeReader
    /\ SignatureNotExamined

\* the URL is a URL of the storage provider: it names the provider's host
\* with a cloud, and it has an /upload/ path with a public id
IsStorageProviderUrl(url) == extractCloudName(url) # <<>> /\ extractPublicId(url) # <<>>

\* the URL has an /upload/ path with a public id, and a cloud name is at
\* hand, in the URL or in CLOUDINARY_CLOUD_NAME
HasUploadPathAndCloud(url, env) ==
    /\ extractPublicId(url) # <<>>
    /\ extractCloudName(url) # <<>> \/ env.cloudName # <<>>

\* no request but the direct GET has been made, and the call fails with
\* DOWNLOAD_FAILED once that GET has failed
DirectGetOnly ==
    /\ \A i \in 1..Len(requests) : requests[i].method = 1
    /\ Len(requests) <= 1
    /\ dpc = "thrown" => (Len(requests) = 1 /\ thrown = <<DownloadFailed(durl)>>)

ReturnedTextWasCleaned ==
    \E i \in 1..Len(cleanedTexts) : cleanedTexts[i] = presult[1].text

\* the call took the branch of extractTextWithOCR that recognizes nothing
TookPlaceholderBranch ==
    /\ ocrCalls > 0
    /\ ~(eoptions.isPngAsPdf \/ eoptions.directImageOcr)

\* C31: on every path by which processDocument returns a result, the
\* returned text has been passed through cleanText after extraction and
\* before the result was assembled
ReturnedTextNormalized ==
    ppc = "returned" => ReturnedTextWasCleaned

\* on every path but the placeholder of extractTextWithOCR the returned text
\* is a text cleanText returned
ReturnedTextNormalizedButPlaceholder ==
    (ppc = "returned" /\ ~TookPlaceholderBranch) => ReturnedTextWasCleaned

\* the Authorization header is 'Bearer ' followed by exactly the API key
ExactBearerKey(authHeader) == authHeader = <<"Bearer", ApiKey>>

\* the body has a non-empty cloudinaryUrl and documentId
HasUrlAndDocumentId(req) ==
    /\ req.body # <<>>
    /\ req.body[1].cloudinaryUrl # <<>>
    /\ req.body[1].documentId # <<>>

\* the handler has answered with this status and processDocument was not
\* called, so that nothing was fetched
AnsweredWithoutFetch(status) ==
    /\ hcalls = <<>> /\ ppc = "idle" /\ requests = <<>>
    /\ Len(hresponses) = 1
    /\ hresponses[1].status = status

\* C32: the handler calls processDocument only for a POST request whose
\* Authorization header is 'Bearer ' followed by exactly the API key and
\* whose body has a non-empty cloudinaryUrl and documentId; a non-POST
\* method is answered 405, a missing or malformed header 401, a wrong key
\* 403 and a missing field 400, each without any fetch
ProcessOnlyForAuthenticatedPost ==
    /\ hcalls # <<>> =>
           /\ hrequest.method = "POST"
           /\ ExactBearerKey(hrequest.authorization)
           /\ HasUrlAndDocumentId(hrequest)
    /\ hpc # "start" =>
           /\ hrequest.method # "POST" => AnsweredWithoutFetch(405)
           /\ (hrequest.method = "POST" /\ ~StartsWithBearer(hrequest.authorization))
                  => AnsweredWithoutFetch(401)
           /\ (hrequest.method = "POST" /\ StartsWithBearer(hrequest.authorization)
                   /\ ~ExactBearerKey(hrequest.authorization))
                  => AnsweredWithoutFetch(403)
           /\ (hrequest.method = "POST" /\ ExactBearerKey(hrequest.authorization)
                   /\ ~HasUrlAndDocumentId(hrequest))
                  => AnsweredWithoutFetch(400)

\* the same with the token read as the code reads it, the piece between
\* the first and the second space, with the preflight answered 200 and an
\* absent body answered 500
ProcessOnlyAfterAuthenticateRequest ==
    /\ hcalls # <<>> =>
           /\ hrequest.method = "POST"
           /\ authenticateRequest(hrequest) = <<>>
           /\ HasUrlAndDocumentId(hrequest)
    /\ hpc # "start" =>
           /\ hrequest.method = "OPTIONS" => AnsweredWithoutFetch(200)
           /\ hrequest.method \notin {"POST", "OPTIONS"} => AnsweredWithoutFetch(405)
           /\ (hrequest.method = "POST" /\ ~StartsWithBearer(hrequest.authorization))
                  => AnsweredWithoutFetch(401)
           /\ (hrequest.method = "POST" /\ StartsWithBearer(hrequest.authorization)
                   /\ BearerToken(hrequest.authorization) # ApiKey)
                  => AnsweredWithoutFetch(403)
           /\ (hrequest.method = "POST" /\ authenticateRequest(hrequest) = <<>>
                   /\ hrequest.body = <<>>)
                  => AnsweredWithoutFetch(500)
           /\ (hrequest.method = "POST" /\ authenticateRequest(hrequest) = <<>>
                   /\ hrequest.body # <<>> /\ ~HasUrlAndDocumentId(hrequest))
                  => AnsweredWithoutFetch(400)

\* a request with a further piece after the key has reached processDocument
ExtraPieceAdmitted ==
    /\ hrequest.authorization = <<"Bearer", ApiKey, "x">>
    /\ hcalls # <<>>

\* C33: within one extractTextFromPDF call extractTextWithOCR is called at
\* most once; when the call made for a sparse text fails, OCR is not called
\* a second time on the same bytes
OcrAtMostOncePerPdfCall ==
    strategy = "pdf" => ocrCalls <= 1

\* extractTextWithOCR is called at most twice, and a second time only from
\* the catch block, after the call made for a sparse text has failed
OcrTwiceOnlyAfterSparseFailure ==
    strategy = "pdf" =>
        /\ ocrCalls <= 2
        /\ ocrCalls = 2 =>
               /\ ocrCaller = "fallback"
               /\ parsed # <<>>
               /\ caught # <<>> /\ caught[1] = OcrFailed

\* C34: under any interleaving of the calls, and after any failed
\* initialisation, recognize is never called on a worker whose loadLanguage
\* and initialize have not both completed successfully
RecognizeOnlyWhenInitialized ==
    \A call \in Calls : recognizedOn[call] # <<>> => recognizedOn[call] = <<"ready">>

\* the call that created the worker has failed in loadLanguage or initialize
\* without reaching recognize, and another call has passed the worker it
\* left behind to recognize
FailedInitializationReused ==
    \E a, b \in Calls :
        /\ a # b
        /\ engines = 1
        /\ opc[a] = "thrown" /\ recognizedOn[a] = <<>>
        /\ opc[b] = "recognizing" /\ recognizedOn[b] = <<"created">>

\* the type the first call refused is not an image type: 'image/' stands
\* in it past its beginning
RefusedTypeNotImage ==
    \A i \in 1..Len(hcalls[1].failure[1].message) :
        hcalls[1].failure[1].message[i] \in ContainsImageSlash =>
            ~IsImage(hcalls[1].failure[1].message[i])

ImageOfDeclaredPdfNotRefused ==
    (hcalls # <<>> /\ hcalls[1].options.forcePdfMode /\ Len(hcalls) = 1
         /\ fileData # <<>> /\ IsImage(fileData[1].mimeType) /\ strategy # "none")
        => strategy = "ocr"

====
